---------------------------- MODULE Spec2Model ----------------------------
(***************************************************************************)
(* Verification model of the HLX content-addressed shader store            *)
(* (src/hlx_runtime/shaderdb.py) and of the LC-T / LC-R text codecs        *)
(* (src/runtime/hlx_runtime/lc_t_codec.py, lc_r_codec.py, glyphs.py).      *)
(*                                                                         *)
(* Text is a string (Len, SubSeq and \o apply to it), bytes are a sequence  *)
(* of integers 0..255.                                                     *)
(***************************************************************************)
EXTENDS Integers, Sequences, FiniteSets, TLC

(***************************************************************************)
(* Generic sequence helpers.                                               *)
(***************************************************************************)
Take(s, n) == SubSeq(s, 1, n)

Drop(s, n) == SubSeq(s, n + 1, Len(s))

StartsWith(s, p) == Len(s) >= Len(p) /\ SubSeq(s, 1, Len(p)) = p

\* s contains p as a contiguous substring (SQL LIKE '%p%' on lower-case names)
Contains(s, p) ==
    \E i \in 0..(Len(s) - Len(p)) : SubSeq(s, i + 1, i + Len(p)) = p

SelectRows(s, T(_)) == SelectSeq(s, T)

(***************************************************************************)
(*                     PART I  -  ShaderDatabase (CAS)                     *)
(***************************************************************************)

\* ShaderHandle.PREFIX = "&h_shader_"
PREFIX == "&h_shader_"

\* The 20-byte SPIR-V header of the spec's scenario S4 and a 24-byte variant.
SpirvA == <<3, 2, 35, 7, 0, 0, 1, 0, 0, 0, 0, 0, 1, 0, 0, 0, 0, 0, 0, 0>>

SpirvB == <<3, 2, 35, 7, 0, 0, 1, 0, 0, 0, 0, 0, 2, 0, 0, 0, 0, 0, 0, 0,
            0, 0, 0, 0>>

\* Payloads the validation of add_shader rejects.
TooSmall == <<3, 2, 35, 7, 0, 0, 1, 0, 0, 0, 0, 0, 1, 0, 0, 0>>

Unaligned == <<3, 2, 35, 7, 0, 0, 1, 0, 0, 0, 0, 0, 1, 0, 0, 0, 0, 0, 0, 0,
               0, 0>>

BadMagic == <<3, 2, 35, 8, 0, 0, 1, 0, 0, 0, 0, 0, 1, 0, 0, 0, 0, 0, 0, 0>>

ValidPayloads == {SpirvA, SpirvB}

Payloads == ValidPayloads \cup {TooSmall, Unaligned, BadMagic}

\* hashlib.blake2b(b, digest_size=32).hexdigest() on the payloads of the model
Blake2bHex(b) ==
    CASE b = SpirvA ->
           "e963e2176d3055dbffa0d2d9ef4770978462e1f2fc2068507d86cce4048eb86b"
      [] b = SpirvB ->
           "2e6fe18054726277d2696206cec158d1be9dcdac5e09527ca384378a81c0db5e"
      [] b = TooSmall ->
           "1250ea98fc85e6809db5cd8fb9d521c69667d233641687fe6996be2c4155d7fa"
      [] b = Unaligned ->
           "090cafdab1716e70bc6e0c4745698628d9f609a52a35c092af663759c31b01f7"
      [] b = BadMagic ->
           "158d24dba4e212d0400441f75ac6ea2eea3fe98c79e48ade954d5e66c310e10b"

\* ShaderHandle.from_spirv: PREFIX + hex digest
FromSpirv(b) == PREFIX \o Blake2bHex(b)

\* ShaderHandle.hash / .prefix / .suffix of a handle string
HandleHash(h) == Drop(h, Len(PREFIX))

\* self._hash[:2]: a hash shorter than two characters is its own prefix
HandlePrefix(h) ==
    IF Len(HandleHash(h)) < 2 THEN HandleHash(h) ELSE Take(HandleHash(h), 2)

HandleSuffix(h) == Drop(HandleHash(h), 2)

\* objects_dir / handle.prefix / handle.suffix
ObjPath(h) == <<HandlePrefix(h), HandleSuffix(h)>>

\* int.from_bytes(spirv_bytes[:4], 'little')
MagicOf(b) == b[1] + 256 * b[2] + 65536 * b[3] + 16777216 * b[4]

SpirvMagic == 119734787

MinSpirvLen == 20

\* mutant: the magic word is not checked
ValidSpirvAnyMagic(b) ==
    /\ ~(Len(b) < MinSpirvLen)
    /\ ~(Len(b) % 4 # 0)

\* the three ValueError checks at the head of add_shader
ValidSpirv(b) ==
    /\ ~(Len(b) < MinSpirvLen)
    /\ ~(Len(b) % 4 # 0)
    /\ MagicOf(b) = SpirvMagic

(***************************************************************************)
(* Inputs of the model: metadata dicts (partial maps, as Python dicts),    *)
(* threads, handles passed to get / exists, query filters.                 *)
(***************************************************************************)
NameT == "t"

NameTU == "tu"

WG16 == <<16, 16, 1>>

\* metadata=None (or {}): falsy, every keyword default is kept
NoMeta == [k \in {} |-> 0]

Metadatas ==
    { NoMeta,
      [name |-> NameT],
      [name |-> NameTU, shader_stage |-> "vertex", workgroup_size |-> WG16,
       tags |-> <<"test">>] }

\* metadata.get(k, d)
DictGet(m, k, d) == IF k \in DOMAIN m THEN m[k] ELSE d

\* keyword defaults of add_shader
DefaultName == "unnamed"

DefaultStage == "compute"

DefaultEntry == "main"

\* NumWorkers worker threads next to the thread that constructed the database
NumWorkers == 1

\* sqlite3.connect(...) with the default check_same_thread=True: the
\* connection belongs to the thread that ran __init__, thread 0
ConnOwner == 0

Workers == 1..NumWorkers

AllThreads == {ConnOwner} \cup Workers

\* a handle string that names no stored object, and one without the prefix
UnknownHandle == PREFIX \o "00ff"

BadHandle == "&h_x"

\* handle strings with the prefix and a hash of two characters or none: their
\* object path is objects_dir / "e9" (the directory of the object of SpirvA)
\* and objects_dir itself
PrefixDirHandle == PREFIX \o "e9"

ObjectsDirHandle == PREFIX

KnownHandles == {FromSpirv(b) : b \in ValidPayloads}

HandleArgs == KnownHandles \cup {UnknownHandle, BadHandle, PrefixDirHandle, ObjectsDirHandle}

Paths == {ObjPath(h) : h \in KnownHandles \cup {UnknownHandle}}

\* a file of the object layer: missing, or present with its current bytes
Absent == [exists |-> FALSE, bytes |-> <<>>]

File(b) == [exists |-> TRUE, bytes |-> b]

VARIABLES
    threads,    \* the threads that call into the database in this behaviour
    pc,         \* pc[t]: position of thread t inside add_shader, or "idle"
    loc,        \* loc[t]: spirv_bytes and handle of the running call
    res,        \* outcome of the call that completed last (call, argument, result)
    fs,         \* object layer: path -> bytes of the file, or Absent
    index,      \* shaders table: sequence of rows in rowid order
    returned,   \* history: (bytes, handle) of every successful add_shader
    input,      \* the Python value a caller passes to the codecs
    lctText,    \* the LC-T text: encode_lct(input) once called, or a caller's text
    lctOut,     \* outcome of decode_lct on lctText, once called
    bijection,  \* outcome of verify_lct_bijection(input), once called
    lcrText,    \* encode_lcr(input), once called
    lcrOut,     \* outcome of decode_lcr on lcrText, once called
    lebValue,   \* the integer a caller passes to encode_leb128_i64
    lebBytes,   \* encode_leb128_i64(lebValue), once called
    lebOut,     \* outcome of decode_leb128_i64(lebBytes, 0), once called
    u32Data,    \* the bytes a caller passes to decode_leb128_u32
    u32Out,     \* outcome of decode_leb128_u32(u32Data, 0), once called
    instructions,   \* LCBBatchBuilder.instructions
    builderRes,     \* outcome of the builder call that completed last
    batch,      \* the bytes build() returned last
    execPc,     \* position inside LCBClient.execute, or "idle"
    execBatch,  \* the batch passed to execute
    sock,       \* the socket of execute: "none", "open" or "closed"
    wire,       \* history: the calls execute has made on its socket
    peerData,   \* the bytes the peer writes before it closes its end
    peerPos,    \* how many of them recv has returned so far
    recv,       \* n and data of the running _recv_exact
    response,   \* the response payload execute has read
    execRes,    \* outcome of execute
    store,      \* SimpleCAS.store: (handle, value) in insertion order
    casCall     \* the collapse / resolve call that completed last

casVars == <<threads, pc, loc, res, fs, index, returned>>

codecVars == <<input, lctText, lctOut, bijection, lcrText, lcrOut>>

lebVars == <<lebValue, lebBytes, lebOut, u32Data, u32Out>>

builderVars == <<instructions, builderRes, batch>>

clientVars == <<execPc, execBatch, sock, wire, peerData, peerPos, recv, response, execRes>>

lcbVars == <<lebVars, builderVars, clientVars>>

simpleCasVars == <<store, casCall>>

NoRes == [op |-> "none", arg |-> <<>>, kind |-> "none", val |-> <<>>]

\* the outcome r of the call that thread t has just completed
Done(t, r) == r

NoLoc == [bytes |-> <<>>, handle |-> ""]

\* a returned value / a raised exception, with the call and its argument
Ok(op, arg, v) == [op |-> op, arg |-> arg, kind |-> "ok", val |-> v]

Err(op, arg, e) == [op |-> op, arg |-> arg, kind |-> e, val |-> <<>>]

\* the object path of h is a directory: objects_dir (made by __init__) for an
\* empty hash, or objects_dir / prefix for a hash of one or two characters,
\* which obj_path.parent.mkdir makes when the first object below it is written
IsDir(f, h) ==
    /\ HandleSuffix(h) = ""
    /\ \/ HandlePrefix(h) = ""
       \/ \E p \in DOMAIN f : p[1] = HandlePrefix(h) /\ f[p].exists

\* Path.exists() on the object path
PathExists(f, h) ==
    \/ IsDir(f, h)
    \/ ObjPath(h) \in DOMAIN f /\ f[ObjPath(h)].exists

\* mutant: the comparison of the stored bytes with the payload always succeeds
SameBytesAlways(existing, b) == TRUE

\* mutant: the comparison of the stored bytes with the payload never succeeds
SameBytesNever(existing, b) == FALSE

\* `existing == spirv_bytes` in the deduplication branch
SameBytes(existing, b) == existing = b

\* the metadata merge (if metadata: ...) and `workgroup_size or [1, 1, 1]`
MergedRow(h, b, m) ==
    [ handle       |-> h,
          name         |-> DictGet(m, "name", DefaultName),
          shader_stage |-> DictGet(m, "shader_stage", DefaultStage),
          entry_point  |-> DictGet(m, "entry_point", DefaultEntry),
          wg           |-> DictGet(m, "workgroup_size", <<1, 1, 1>>),
          spirv_size   |-> Len(b),
          tags         |-> DictGet(m, "tags", <<>>) ]

\* INSERT OR REPLACE on the primary key `handle`: a row with the same key is
\* deleted and the new row gets the next rowid (the end of the table)
\* mutant: the table is keyed by the shader name instead of the handle
KeyOfRowName(r) == r.name

KeyOfRow(r) == r.handle

InsertOrReplace(idx, row) ==
    LET Keep(r) == KeyOfRow(r) # KeyOfRow(row)
    IN  Append(SelectSeq(idx, Keep), row)

\* mutant: the payload is written without its magic word
WrittenBytesNoMagic(b) == Drop(b, 4)

\* what Path.write_bytes leaves in the file once the write has completed
WrittenBytes(b) == b

\* mutant: the row is inserted without the object having been written
PcAfterAbsentIndexFirst == "index"

\* position of add_shader after the existence check found no object
PcAfterAbsent == "open"

\* ShaderHandle.__init__: the string must start with PREFIX
ValidHandle(h) == StartsWith(h, PREFIX)

RECURSIVE SumSizes(_)
SumSizes(rows) ==
    IF rows = <<>> THEN 0 ELSE Head(rows).spirv_size + SumSizes(Tail(rows))

\* SELECT COUNT(*), SUM(spirv_size) FROM shaders
StatsOf(idx) == [shader_count |-> Len(idx), total_spirv_bytes |-> SumSizes(idx)]

\* the BINARY collation of SQLite on the hex digits of a handle
HexRank(c) ==
    CASE c = "0" -> 0 [] c = "1" -> 1 [] c = "2" -> 2 [] c = "3" -> 3
      [] c = "4" -> 4 [] c = "5" -> 5 [] c = "6" -> 6 [] c = "7" -> 7
      [] c = "8" -> 8 [] c = "9" -> 9 [] c = "a" -> 10 [] c = "b" -> 11
      [] c = "c" -> 12 [] c = "d" -> 13 [] c = "e" -> 14 [] c = "f" -> 15

RECURSIVE HexLess(_, _)
HexLess(a, b) ==
    IF Len(a) = 0 THEN Len(b) > 0
    ELSE IF Len(b) = 0 THEN FALSE
    ELSE IF Take(a, 1) = Take(b, 1) THEN HexLess(Drop(a, 1), Drop(b, 1))
    ELSE HexRank(Take(a, 1)) < HexRank(Take(b, 1))

HandleLess(g, h) == HexLess(HandleHash(g), HandleHash(h))

\* the entries of sqlite_autoindex_shaders_1, the index of the primary key
\* `handle`: the handles of the table in ascending order
RECURSIVE InsertHandle(_, _)
InsertHandle(hs, h) ==
    IF Len(hs) = 0 THEN <<h>>
    ELSE IF HandleLess(h, Head(hs)) THEN <<h>> \o hs
    ELSE <<Head(hs)>> \o InsertHandle(Tail(hs), h)

RECURSIVE HandleIndex(_)
HandleIndex(idx) ==
    IF Len(idx) = 0 THEN <<>>
    ELSE InsertHandle(HandleIndex(Tail(idx)), Head(idx).handle)

\* SELECT handle FROM shaders LIMIT ?  The statement has no ORDER BY; SQLite
\* answers it by a scan of the covering index of the primary key, so the
\* handles come in ascending order, not in rowid order
ListAllOf(idx, limit) ==
    Take(HandleIndex(idx), IF limit < Len(idx) THEN limit ELSE Len(idx))

\* SELECT * FROM shaders WHERE 1=1 [AND name LIKE ?] [AND shader_stage = ?]
\* [AND workgroup_x = ? AND workgroup_y = ? AND workgroup_z = ?] LIMIT n
\* The statement has no ORDER BY; SQLite answers it by a scan of the table or
\* of idx_stage / idx_workgroup, each of which yields the rows that match in
\* rowid order
QueryOf(idx, q) ==
    LET Match(r) ==
            /\ (q.name # "" => Contains(r.name, q.name))
            /\ (q.shader_stage # "" => r.shader_stage = q.shader_stage)
            /\ (q.workgroup_size # <<>> => r.wg = q.workgroup_size)
        hits == SelectSeq(idx, Match)
    IN  Take(hits, IF q.limit < Len(hits) THEN q.limit ELSE Len(hits))

\* filters of query(): an empty name / stage / workgroup is falsy (no filter)
QueryArg(n, s, w, l) ==
    [name |-> n, shader_stage |-> s, workgroup_size |-> w, limit |-> l]

QueryArgs ==
    { QueryArg("", "", <<>>, 100), QueryArg("", "", <<>>, 1),
      QueryArg(NameT, "", <<>>, 100), QueryArg("u", "vertex", <<>>, 100),
      QueryArg("", "compute", WG16, 100), QueryArg("", "", WG16, 100) }

(***************************************************************************)
(* add_shader, one step per file-system or database call.                  *)
(***************************************************************************)

\* lines 158-170: validation and ShaderHandle.from_spirv.  The metadata
\* argument is not read before the call returns or merges it (lines 178 and
\* 187): the model draws it there, which keeps it out of the thread's state.
AddShaderBegin(t) ==
    /\ t \in threads
    /\ pc[t] = "idle"
    /\ \E b \in Payloads :
          IF ValidSpirv(b)
          THEN /\ pc' = [pc EXCEPT ![t] = "check"]
               /\ loc' = [loc EXCEPT ![t] = [bytes |-> b, handle |-> FromSpirv(b)]]
               /\ UNCHANGED res
          ELSE /\ res' = Done(t, Err("add_shader", [bytes |-> b, meta |-> NoMeta], "ValueError"))
               /\ UNCHANGED <<pc, loc>>
    /\ UNCHANGED <<threads, fs, index, returned, codecVars, lcbVars, simpleCasVars>>

\* lines 173-180: obj_path.exists(), read_bytes(), compare.  The object layer
\* never deletes, so exists() followed by read_bytes() sees what one read at
\* the time of read_bytes() sees.
AddShaderCheck(t) ==
    /\ t \in threads
    /\ pc[t] = "check"
    /\ \E m \in Metadatas :
       LET h == loc[t].handle
           b == loc[t].bytes
       IN  IF PathExists(fs, h)
           THEN IF SameBytes(fs[ObjPath(h)].bytes, b)
                THEN /\ res' = Done(t, Ok("add_shader", [bytes |-> b, meta |-> m], h))
                     /\ returned' = returned \cup {[bytes |-> b, handle |-> h]}
                     /\ pc' = [pc EXCEPT ![t] = "idle"]
                     /\ loc' = [loc EXCEPT ![t] = NoLoc]
                ELSE /\ res' = Done(t, Err("add_shader", [bytes |-> b, meta |-> NoMeta], "Collision"))
                     /\ pc' = [pc EXCEPT ![t] = "idle"]
                     /\ loc' = [loc EXCEPT ![t] = NoLoc]
                     /\ UNCHANGED returned
           ELSE /\ pc' = [pc EXCEPT ![t] = PcAfterAbsent]
                /\ UNCHANGED <<loc, res, returned>>
    /\ UNCHANGED <<threads, fs, index, codecVars, lcbVars, simpleCasVars>>

\* lines 183-184: mkdir(exist_ok=True); write_bytes opens the file with mode
\* 'wb', which creates it empty or truncates it
AddShaderOpen(t) ==
    /\ t \in threads
    /\ pc[t] = "open"
    /\ fs' = [fs EXCEPT ![ObjPath(loc[t].handle)] = File(<<>>)]
    /\ pc' = [pc EXCEPT ![t] = "write"]
    /\ UNCHANGED <<threads, loc, res, index, returned, codecVars, lcbVars, simpleCasVars>>

\* line 184: write_bytes writes the payload and closes the file
AddShaderWrite(t) ==
    /\ t \in threads
    /\ pc[t] = "write"
    /\ fs' = [fs EXCEPT ![ObjPath(loc[t].handle)] = File(WrittenBytes(loc[t].bytes))]
    /\ pc' = [pc EXCEPT ![t] = "index"]
    /\ UNCHANGED <<threads, loc, res, index, returned, codecVars, lcbVars, simpleCasVars>>

\* lines 186-216: merge metadata, INSERT OR REPLACE, commit, return handle.
\* The connection raises sqlite3.ProgrammingError in any thread but its owner.
AddShaderIndex(t) ==
    /\ t \in threads
    /\ pc[t] = "index"
    /\ \E m \in Metadatas :
       LET h == loc[t].handle
           b == loc[t].bytes
       IN  IF t = ConnOwner
           THEN /\ index' = InsertOrReplace(index, MergedRow(h, b, m))
                /\ res' = Done(t, Ok("add_shader", [bytes |-> b, meta |-> m], h))
                /\ returned' = returned \cup {[bytes |-> b, handle |-> h]}
           ELSE /\ res' = Done(t, Err("add_shader", [bytes |-> b, meta |-> NoMeta], "ProgrammingError"))
                /\ UNCHANGED <<index, returned>>
    /\ pc' = [pc EXCEPT ![t] = "idle"]
    /\ loc' = [loc EXCEPT ![t] = NoLoc]
    /\ UNCHANGED <<threads, fs, codecVars, lcbVars, simpleCasVars>>

(***************************************************************************)
(* The read-only operations.                                               *)
(***************************************************************************)

\* get(): lines 218-227
GetOf(f, h) ==
    IF ~ValidHandle(h) THEN Err("get", h, "ValueError")
    ELSE IF ~PathExists(f, h) THEN Err("get", h, "KeyError")
    ELSE IF IsDir(f, h) THEN Err("get", h, "IsADirectoryError")
    ELSE Ok("get", h, f[ObjPath(h)].bytes)

\* exists(): lines 229-233
ExistsOf(f, h) ==
    IF ~ValidHandle(h) THEN Err("exists", h, "ValueError")
    ELSE Ok("exists", h, PathExists(f, h))

Get(t) ==
    /\ t \in threads
    /\ pc[t] = "idle"
    /\ \E h \in HandleArgs :
          res' = Done(t, GetOf(fs, h))
    /\ UNCHANGED <<threads, pc, loc, fs, index, returned, codecVars, lcbVars, simpleCasVars>>

Exists(t) ==
    /\ t \in threads
    /\ pc[t] = "idle"
    /\ \E h \in HandleArgs :
          res' = Done(t, ExistsOf(fs, h))
    /\ UNCHANGED <<threads, pc, loc, fs, index, returned, codecVars, lcbVars, simpleCasVars>>

Query(t) ==
    /\ t \in threads
    /\ pc[t] = "idle"
    /\ \E q \in QueryArgs :
          res' = Done(t, IF t = ConnOwner THEN Ok("query", q, QueryOf(index, q))
                     ELSE Err("query", q, "ProgrammingError"))
    /\ UNCHANGED <<threads, pc, loc, fs, index, returned, codecVars, lcbVars, simpleCasVars>>

ListAll(t) ==
    /\ t \in threads
    /\ pc[t] = "idle"
    /\ \E limit \in {1, 100} :
          res' = Done(t, IF t = ConnOwner THEN Ok("list_all", limit, ListAllOf(index, limit))
                     ELSE Err("list_all", limit, "ProgrammingError"))
    /\ UNCHANGED <<threads, pc, loc, fs, index, returned, codecVars, lcbVars, simpleCasVars>>

Stats(t) ==
    /\ t \in threads
    /\ pc[t] = "idle"
    /\ res' = Done(t, IF t = ConnOwner THEN Ok("stats", <<>>, StatsOf(index))
                  ELSE Err("stats", <<>>, "ProgrammingError"))
    /\ UNCHANGED <<threads, pc, loc, fs, index, returned, codecVars, lcbVars, simpleCasVars>>

(***************************************************************************)
(*              PART II  -  The value model and the text codecs            *)
(*                                                                         *)
(* A Python value is a record [t, v]: t is the Python type, v the payload. *)
(* A dict is the sequence of its (key, value) pairs in insertion order.    *)
(* A finite float is written by the digits of its shortest repr:           *)
(* (-1)^neg * d1.d2...dn * 10^exp with dig = "d1d2...dn" (no trailing      *)
(* zero; "0" for zero).                                                    *)
(***************************************************************************)
PyNone == [t |-> "none", v |-> 0]

PyBool(b) == [t |-> "bool", v |-> b]

PyInt(i) == [t |-> "int", v |-> i]

PyFloat(neg, dig, exp) ==
    [t |-> "float", v |-> [kind |-> "fin", neg |-> neg, dig |-> dig, exp |-> exp]]

PyInf(neg) ==
    [t |-> "float", v |-> [kind |-> "inf", neg |-> neg, dig |-> "", exp |-> 0]]

PyNan == [t |-> "float", v |-> [kind |-> "nan", neg |-> FALSE, dig |-> "", exp |-> 0]]

PyStr(s) == [t |-> "str", v |-> s]

PyBytes(b) == [t |-> "bytes", v |-> b]

PyList(elems) == [t |-> "list", v |-> elems]

PyDict(pairs) == [t |-> "dict", v |-> pairs]

\* the character at the 1-based position i of s ("" past the end)
CharAt(s, i) == IF i >= 1 /\ i <= Len(s) THEN SubSeq(s, i, i) ELSE ""

Digits == "0123456789"

CharsOf(s) == {SubSeq(s, i, i) : i \in 1..Len(s)}

\* str.isdigit / isalpha / isalnum / isspace on the ASCII characters
IsDigit(c) == c \in CharsOf(Digits)

IsAlpha(c) ==
    c \in CharsOf("abcdefghijklmnopqrstuvwxyzABCDEFGHIJKLMNOPQRSTUVWXYZ")

IsAlnum(c) == IsDigit(c) \/ IsAlpha(c)

IsSpace(c) == c \in {" ", "\t", "\n", "\r"}

DigitChar(d) == SubSeq(Digits, d + 1, d + 1)

DigitVal(c) == CHOOSE d \in 0..9 : DigitChar(d) = c

AllDigits(s) == \A i \in 1..Len(s) : IsDigit(SubSeq(s, i, i))

RECURSIVE NatToStr(_)
NatToStr(n) ==
    IF n < 10 THEN DigitChar(n) ELSE NatToStr(n \div 10) \o DigitChar(n % 10)

\* str(i) of an int
IntToStr(i) == IF i < 0 THEN "-" \o NatToStr(-i) ELSE NatToStr(i)

RECURSIVE StrToNat(_)
StrToNat(s) ==
    IF Len(s) = 0 THEN 0
    ELSE 10 * StrToNat(SubSeq(s, 1, Len(s) - 1)) + DigitVal(CharAt(s, Len(s)))

RECURSIVE Zeros(_)
Zeros(n) == IF n <= 0 THEN "" ELSE "0" \o Zeros(n - 1)

RECURSIVE StripTrailingZeros(_)
StripTrailingZeros(d) ==
    IF Len(d) > 1 /\ CharAt(d, Len(d)) = "0"
    THEN StripTrailingZeros(SubSeq(d, 1, Len(d) - 1)) ELSE d

\* the digits of a carry out of the last digit: "" stays "", d becomes d0
AppendZero(d) == IF d = "" THEN "" ELSE d \o "0"

\* d + 1 on a digit string of fixed width; "" when it overflows the width
RECURSIVE IncDigits(_)
IncDigits(d) ==
    IF Len(d) = 0 THEN ""
    ELSE IF DigitVal(CharAt(d, Len(d))) < 9
         THEN SubSeq(d, 1, Len(d) - 1) \o DigitChar(DigitVal(CharAt(d, Len(d))) + 1)
    ELSE AppendZero(IncDigits(SubSeq(d, 1, Len(d) - 1)))

\* the rounded-up digits inc of a float: an overflow is the next power of ten
RoundedUp(inc, exp) ==
    IF inc = "" THEN [dig |-> "1", exp |-> exp + 1]
    ELSE [dig |-> StripTrailingZeros(inc), exp |-> exp]

\* the digits and exponent of a finite float rounded to p significant digits
RoundSig(dig, exp, p) ==
    IF Len(dig) <= p THEN [dig |-> dig, exp |-> exp]
    ELSE IF DigitVal(CharAt(dig, p + 1)) < 5
         THEN [dig |-> StripTrailingZeros(SubSeq(dig, 1, p)), exp |-> exp]
    ELSE RoundedUp(IncDigits(SubSeq(dig, 1, p)), exp)

\* positional notation of d1.d2...dn * 10^exp, no trailing ".0"
FixedNotation(dig, exp) ==
    IF exp < 0 THEN "0." \o Zeros(-exp - 1) \o dig
    ELSE IF Len(dig) <= exp + 1 THEN dig \o Zeros(exp + 1 - Len(dig))
    ELSE SubSeq(dig, 1, exp + 1) \o "." \o SubSeq(dig, exp + 2, Len(dig))

\* exponent notation d1[.d2...dn]e+XX with at least two exponent digits
ExpDigits(mag) == (IF mag < 10 THEN "0" ELSE "") \o NatToStr(mag)

ExpNotation(dig, exp) ==
    (IF Len(dig) = 1 THEN dig ELSE CharAt(dig, 1) \o "." \o Tail(dig))
    \o "e" \o (IF exp < 0 THEN "-" \o ExpDigits(-exp) ELSE "+" \o ExpDigits(exp))

Sign(f) == IF f.neg THEN "-" ELSE ""

GPrecision == 15

ReprMaxExp == 16

\* the 'g' presentation of rounded digits r at precision p
GNotation(r, p) ==
    IF r.exp < -4 \/ r.exp >= p THEN ExpNotation(r.dig, r.exp)
    ELSE FixedNotation(r.dig, r.exp)

\* f"{value:.15g}"
FormatG15(f) ==
    IF f.kind = "inf" THEN Sign(f) \o "inf"
    ELSE IF f.kind = "nan" THEN "nan"
    ELSE Sign(f) \o GNotation(RoundSig(f.dig, f.exp, GPrecision), GPrecision)

\* str(value) / f"{value}" of a float: the shortest repr
FloatRepr(f) ==
    IF f.kind = "inf" THEN Sign(f) \o "inf"
    ELSE IF f.kind = "nan" THEN "nan"
    ELSE IF f.exp < -4 \/ f.exp >= ReprMaxExp THEN Sign(f) \o ExpNotation(f.dig, f.exp)
    ELSE Sign(f) \o FixedNotation(f.dig, f.exp)
                 \o (IF Len(f.dig) <= f.exp + 1 THEN ".0" ELSE "")

HasChar(s, c) == \E i \in 1..Len(s) : SubSeq(s, i, i) = c

\* the position of the first c in s, 0 when there is none
FirstPos(s, c) ==
    IF HasChar(s, c) THEN CHOOSE i \in 1..Len(s) :
                              /\ SubSeq(s, i, i) = c
                              /\ \A j \in 1..(i - 1) : SubSeq(s, j, j) # c
    ELSE 0

Unsigned(s) == IF CharAt(s, 1) \in {"-", "+"} THEN Tail(s) ELSE s

\* int(s): an optional sign and at least one digit, else ValueError
IntParses(s) == Len(Unsigned(s)) > 0 /\ AllDigits(Unsigned(s))

IntOf(s) ==
    IF CharAt(s, 1) = "-" THEN -StrToNat(Tail(s))
    ELSE IF CharAt(s, 1) = "+" THEN StrToNat(Tail(s))
    ELSE StrToNat(s)

\* the position of the exponent marker of a number string, 0 without one
ExpPos(body) ==
    IF HasChar(body, "e") THEN FirstPos(body, "e") ELSE FirstPos(body, "E")

\* the part of s before position i, all of s when i = 0
Before(s, i) == IF i = 0 THEN s ELSE SubSeq(s, 1, i - 1)

\* the part of s after position i, nothing when i = 0
After(s, i) == IF i = 0 THEN "" ELSE SubSeq(s, i + 1, Len(s))

MantissaParts(neg, mant, expS, hasExp) ==
    [neg |-> neg, ip |-> Before(mant, FirstPos(mant, ".")),
     fp |-> After(mant, FirstPos(mant, ".")), hasExp |-> hasExp,
     expNeg |-> CharAt(expS, 1) = "-", expD |-> Unsigned(expS)]

BodyParts(neg, body) ==
    MantissaParts(neg, Before(body, ExpPos(body)), After(body, ExpPos(body)),
                  ExpPos(body) # 0)

\* the sign, integer digits, fraction digits and exponent of a number string
FloatParts(s) == BodyParts(CharAt(s, 1) = "-", Unsigned(s))

PartsParse(p) ==
    /\ AllDigits(p.ip) /\ AllDigits(p.fp)
    /\ Len(p.ip) + Len(p.fp) > 0
    /\ (p.hasExp => (Len(p.expD) > 0 /\ AllDigits(p.expD)))

\* float(s) on a string [+-]digits[.digits][e[+-]digits]: ValueError unless
\* the mantissa has a digit and an 'e' is followed by a digit
FloatParses(s) == PartsParse(FloatParts(s))

\* number of leading zeros of a digit string
RECURSIVE LeadingZeros(_)
LeadingZeros(d) ==
    IF Len(d) > 0 /\ CharAt(d, 1) = "0" THEN 1 + LeadingZeros(Tail(d)) ELSE 0

ExpValue(p) ==
    IF ~p.hasExp THEN 0
    ELSE IF p.expNeg THEN -StrToNat(p.expD) ELSE StrToNat(p.expD)

\* the float with digits all, lz of them leading zeros, first digit at 10^exp
Normalized(neg, all, lz, exp) ==
    IF lz = Len(all) THEN PyFloat(neg, "0", 0)
    ELSE PyFloat(neg, StripTrailingZeros(SubSeq(all, lz + 1, Len(all))), exp - lz)

FloatOfParts(p) ==
    Normalized(p.neg, p.ip \o p.fp, LeadingZeros(p.ip \o p.fp),
               Len(p.ip) - 1 + ExpValue(p))

\* float(s) of a string that parses
FloatOf(s) == FloatOfParts(FloatParts(s))

(***************************************************************************)
(* Python equality of two values (==): lists by position, dicts by key,    *)
(* numbers by value across bool, int and float, nan equal to nothing.      *)
(***************************************************************************)
IsNumber(a) == a.t \in {"bool", "int", "float"}

\* a bool or int as the float of the same value
AsFloat(a) ==
    IF a.t = "float" THEN a
    ELSE IF a.t = "bool" THEN FloatOf(IF a.v THEN "1" ELSE "0")
    ELSE FloatOf(IntToStr(a.v))

FloatEq(f, g) ==
    /\ f.kind # "nan" /\ g.kind # "nan"
    /\ f.kind = g.kind
    /\ \/ f.kind = "fin" /\ f.dig = "0" /\ g.dig = "0"
       \/ f.neg = g.neg /\ f.dig = g.dig /\ f.exp = g.exp

DictKeys(pairs) == {pairs[i][1] : i \in DOMAIN pairs}

DictHas(pairs, k) == \E i \in DOMAIN pairs : pairs[i][1] = k

DictVal(pairs, k) == pairs[CHOOSE i \in DOMAIN pairs : pairs[i][1] = k][2]

\* d[k] = v on a dict: an existing key keeps its place
DictSet(pairs, k, v) ==
    IF DictHas(pairs, k)
    THEN [i \in DOMAIN pairs |-> IF pairs[i][1] = k THEN <<k, v>> ELSE pairs[i]]
    ELSE Append(pairs, <<k, v>>)

NumEq(a, b) == FloatEq(AsFloat(a).v, AsFloat(b).v)

RECURSIVE PyEq(_, _)
PyEq(a, b) ==
    IF IsNumber(a) /\ IsNumber(b) THEN NumEq(a, b)
    ELSE IF a.t # b.t THEN FALSE
    ELSE IF a.t = "none" THEN TRUE
    ELSE IF a.t = "list"
         THEN /\ Len(a.v) = Len(b.v)
              /\ \A i \in DOMAIN a.v : PyEq(a.v[i], b.v[i])
    ELSE IF a.t = "dict"
         THEN /\ DictKeys(a.v) = DictKeys(b.v)
              /\ \A k \in DictKeys(a.v) : PyEq(DictVal(a.v, k), DictVal(b.v, k))
    ELSE a.v = b.v

(***************************************************************************)
(* LCTEncoder                                                              *)
(***************************************************************************)
HexDigits == "0123456789abcdef"

HexChar(n) == SubSeq(HexDigits, n + 1, n + 1)

\* bytes.hex()
RECURSIVE BytesHex(_)
BytesHex(b) ==
    IF Len(b) = 0 THEN ""
    ELSE HexChar(Head(b) \div 16) \o HexChar(Head(b) % 16) \o BytesHex(Tail(b))

RECURSIVE Join(_, _)
Join(parts, sep) ==
    IF Len(parts) = 0 THEN ""
    ELSE IF Len(parts) = 1 THEN parts[1]
    ELSE parts[1] \o sep \o Join(Tail(parts), sep)

\* s.replace('\\', '\\\\').replace('"', '\\"') wrapped in quotes
RECURSIVE EscapeBackslashQuote(_)
EscapeBackslashQuote(s) ==
    IF Len(s) = 0 THEN ""
    ELSE (IF CharAt(s, 1) = "\\" THEN "\\\\"
          ELSE IF CharAt(s, 1) = "\"" THEN "\\\""
          ELSE CharAt(s, 1)) \o EscapeBackslashQuote(Tail(s))

EncodeString(s) == "\"" \o EscapeBackslashQuote(s) \o "\""

\* s unless it does not look like a float, then f"{value}"
LooksLikeFloat(s, f) ==
    IF ~HasChar(s, ".") /\ ~HasChar(s, "e") /\ ~HasChar(s, "E")
    THEN FloatRepr(f) ELSE s

\* the float branch of LCTEncoder.encode
EncodeFloat(f) == LooksLikeFloat(FormatG15(f), f)

\* the str branch of LCTEncoder.encode
EncodeStr(s) ==
    IF StartsWith(s, "&h_") THEN "@" \o Drop(s, 3)
    ELSE IF StartsWith(s, "&") THEN "@" \o Drop(s, 1)
    ELSE EncodeString(s)

FieldPrefix == "field_"

ContractIdKey == "contract_id"

\* the keys _encode_contract keeps: 'field_' followed by an int
IsFieldKey(k) == StartsWith(k, FieldPrefix) /\ IntParses(Drop(k, Len(FieldPrefix)))

FieldIdx(k) == IntOf(Drop(k, Len(FieldPrefix)))

\* list.sort(key=idx): stable insertion of one (idx, text) entry
RECURSIVE InsertByIdx(_, _)
InsertByIdx(sorted, e) ==
    IF Len(sorted) = 0 THEN <<e>>
    ELSE IF sorted[Len(sorted)].idx <= e.idx THEN Append(sorted, e)
    ELSE Append(InsertByIdx(SubSeq(sorted, 1, Len(sorted) - 1), e), sorted[Len(sorted)])

RECURSIVE SortByIdx(_)
SortByIdx(fields) ==
    IF Len(fields) = 0 THEN <<>>
    ELSE InsertByIdx(SortByIdx(SubSeq(fields, 1, Len(fields) - 1)), fields[Len(fields)])

\* f"{x}" of a contract id
RECURSIVE StrOf(_)
StrOf(x) ==
    IF x.t = "int" THEN IntToStr(x.v)
    ELSE IF x.t = "str" THEN x.v
    ELSE IF x.t = "bool" THEN (IF x.v THEN "True" ELSE "False")
    ELSE IF x.t = "float" THEN FloatRepr(x.v)
    ELSE "None"

RECURSIVE Encode(_)
EncodeArray(arr) ==
    IF Len(arr) = 0 THEN "[]"
    ELSE "[" \o Join([i \in DOMAIN arr |-> Encode(arr[i])], ",") \o "]"

EncodeContract(pairs) ==
    LET kept   == SelectSeq(pairs, LAMBDA p : p[1] # ContractIdKey /\ IsFieldKey(p[1]))
        fields == SortByIdx([i \in DOMAIN kept |->
                      [idx |-> FieldIdx(kept[i][1]), text |-> Encode(kept[i][2])]])
        parts  == <<"C:" \o StrOf(DictVal(pairs, ContractIdKey))>>
                  \o [i \in DOMAIN fields |->
                         IntToStr(fields[i].idx) \o "=" \o fields[i].text]
    IN  "{" \o Join(parts, ",") \o "}"

EncodeObject(pairs) ==
    IF Len(pairs) = 0 THEN "{}"
    ELSE "{" \o Join([i \in DOMAIN pairs |->
                         pairs[i][1] \o ":" \o Encode(pairs[i][2])], ",") \o "}"

EncodeDict(pairs) ==
    IF Len(pairs) = 0 THEN "{}"
    ELSE IF DictHas(pairs, ContractIdKey) THEN EncodeContract(pairs)
    ELSE EncodeObject(pairs)

\* LCTEncoder.encode
Encode(value) ==
    IF value.t = "none" THEN "NULL"
    ELSE IF value.t = "bool" THEN (IF value.v THEN "TRUE" ELSE "FALSE")
    ELSE IF value.t = "int" THEN IntToStr(value.v)
    ELSE IF value.t = "float" THEN EncodeFloat(value.v)
    ELSE IF value.t = "str" THEN EncodeStr(value.v)
    ELSE IF value.t = "bytes" THEN "#" \o BytesHex(value.v)
    ELSE IF value.t = "list" THEN EncodeArray(value.v)
    ELSE EncodeDict(value.v)

encode_lct(value) == Encode(value)

(***************************************************************************)
(* LCTDecoder.  A parse result is [ok, val, err, pos]: the value and the   *)
(* 1-based position after it, or the exception the code raises.            *)
(***************************************************************************)
POk(v, p) == [ok |-> TRUE, val |-> v, err |-> "", pos |-> p]

PErr(e) == [ok |-> FALSE, val |-> PyNone, err |-> e, pos |-> 0]

LCTError == "LCTError"

ValueError == "ValueError"

\* str.strip()
RECURSIVE LStrip(_)
LStrip(s) == IF Len(s) > 0 /\ IsSpace(CharAt(s, 1)) THEN LStrip(Tail(s)) ELSE s

RECURSIVE RStrip(_)
RStrip(s) ==
    IF Len(s) > 0 /\ IsSpace(CharAt(s, Len(s)))
    THEN RStrip(SubSeq(s, 1, Len(s) - 1)) ELSE s

Strip(s) == RStrip(LStrip(s))

RECURSIVE SkipWhitespace(_, _)
SkipWhitespace(text, pos) ==
    IF pos <= Len(text) /\ IsSpace(CharAt(text, pos))
    THEN SkipWhitespace(text, pos + 1) ELSE pos

IsIdentChar(c) == IsAlnum(c) \/ c = "_"

IsHexChar(c) == c \in CharsOf("0123456789abcdefABCDEF")

InClass(cls, c) ==
    IF cls = "digit" THEN IsDigit(c)
    ELSE IF cls = "hex" THEN IsHexChar(c)
    ELSE IsIdentChar(c)

\* the position after the longest run of characters of one class from pos
RECURSIVE SkipWhile(_, _, _)
SkipWhile(text, pos, cls) ==
    IF pos <= Len(text) /\ InClass(cls, CharAt(text, pos))
    THEN SkipWhile(text, pos + 1, cls) ELSE pos

\* text[a-1:b] of Python: the characters a..b that exist
Slice(text, a, b) ==
    IF a > Len(text) THEN "" ELSE SubSeq(text, a, IF b > Len(text) THEN Len(text) ELSE b)

\* _match: the keyword at pos, not followed by a letter or digit
Match(text, pos, keyword) ==
    /\ Slice(text, pos, pos + Len(keyword) - 1) = keyword
    /\ \/ pos + Len(keyword) > Len(text)
       \/ ~IsAlnum(CharAt(text, pos + Len(keyword)))

IdentifierTo(text, pos, end) ==
    IF end = pos THEN PErr(LCTError) ELSE POk(SubSeq(text, pos, end - 1), end)

\* _read_identifier
ReadIdentifier(text, pos) == IdentifierTo(text, pos, SkipWhile(text, pos, "ident"))

HexVal(c) ==
    IF IsDigit(c) THEN DigitVal(c)
    ELSE 9 + (CHOOSE n \in 1..6 :
                 c \in {SubSeq("abcdef", n, n), SubSeq("ABCDEF", n, n)})

\* the bytes of a string of hex digits of even length
RECURSIVE FromHex(_)
FromHex(s) ==
    IF Len(s) < 2 THEN <<>>
    ELSE <<16 * HexVal(CharAt(s, 1)) + HexVal(CharAt(s, 2))>>
         \o FromHex(SubSeq(s, 3, Len(s)))

\* bytes.fromhex(hex_str): ValueError on an odd number of digits
BytesFromHex(hex, end) ==
    IF Len(hex) % 2 = 1 THEN PErr(ValueError) ELSE POk(PyBytes(FromHex(hex)), end)

HexTo(text, pos, end) == BytesFromHex(SubSeq(text, pos, end - 1), end)

\* _read_hex and the conversion of what it read
ReadHex(text, pos) == HexTo(text, pos, SkipWhile(text, pos, "hex"))

\* the steps of _read_number_str: sign, digits, fraction, exponent
AfterSign(text, pos) == IF CharAt(text, pos) = "-" THEN pos + 1 ELSE pos

AfterFraction(text, pos) ==
    IF CharAt(text, pos) = "." THEN SkipWhile(text, pos + 1, "digit") ELSE pos

AfterExpSign(text, pos) ==
    IF CharAt(text, pos) \in {"+", "-"} THEN pos + 1 ELSE pos

AfterExponent(text, pos) ==
    IF CharAt(text, pos) \in {"e", "E"}
    THEN SkipWhile(text, AfterExpSign(text, pos + 1), "digit") ELSE pos

\* _read_number_str: the position after [-]digits[.digits][e[+-]digits]
ReadNumberStrEnd(text, pos) ==
    AfterExponent(text,
        AfterFraction(text, SkipWhile(text, AfterSign(text, pos), "digit")))

\* float(num_str) or int(num_str), as _read_number chooses
NumberOf(s, end) ==
    IF HasChar(s, ".") \/ HasChar(s, "e") \/ HasChar(s, "E")
    THEN (IF FloatParses(s) THEN POk(FloatOf(s), end) ELSE PErr(ValueError))
    ELSE (IF IntParses(s) THEN POk(PyInt(IntOf(s)), end) ELSE PErr(ValueError))

NumberTo(text, pos, end) == NumberOf(SubSeq(text, pos, end - 1), end)

\* _read_number
ReadNumber(text, pos) == NumberTo(text, pos, ReadNumberStrEnd(text, pos))

IntOfStr(s, end) == IF IntParses(s) THEN POk(IntOf(s), end) ELSE PErr(ValueError)

IntTo(text, pos, end) == IntOfStr(SubSeq(text, pos, end - 1), end)

\* int(self._read_number_str()) of a contract id or field index
ReadInt(text, pos) == IntTo(text, pos, ReadNumberStrEnd(text, pos))

Unescape(c) ==
    IF c = "n" THEN "\n" ELSE IF c = "t" THEN "\t" ELSE IF c = "r" THEN "\r" ELSE c

\* _read_string from the character after the opening quote
RECURSIVE ReadStringFrom(_, _, _)
ReadStringFrom(text, pos, acc) ==
    IF pos > Len(text) THEN PErr(LCTError)
    ELSE IF CharAt(text, pos) = "\"" THEN POk(PyStr(acc), pos + 1)
    ELSE IF CharAt(text, pos) = "\\"
         THEN IF pos + 1 > Len(text) THEN PErr(LCTError)
              ELSE ReadStringFrom(text, pos + 2, acc \o Unescape(CharAt(text, pos + 1)))
    ELSE ReadStringFrom(text, pos + 1, acc \o CharAt(text, pos))

ReadString(text, pos) == ReadStringFrom(text, pos + 1, "")

HandlePrefixLCT == "&h_"

RECURSIVE ParseValue(_, _)
RECURSIVE ParseArrayLoop(_, _, _)
RECURSIVE ParseObject(_, _, _)
RECURSIVE ParseContractLoop(_, _, _)
\* _parse_array after an element: p at ']' or ','
ArrayNext(text, p, elements) ==
    IF p > Len(text) THEN PErr(LCTError)
    ELSE IF CharAt(text, p) = "]" THEN POk(PyList(elements), p + 1)
    ELSE IF CharAt(text, p) = "," THEN ParseArrayLoop(text, p + 1, elements)
    ELSE PErr(LCTError)

ArrayElement(text, r, elements) ==
    IF ~r.ok THEN r
    ELSE ArrayNext(text, SkipWhitespace(text, r.pos), Append(elements, r.val))

\* the loop of _parse_array, pos at the next element
ParseArrayLoop(text, pos, elements) ==
    ArrayElement(text, ParseValue(text, SkipWhitespace(text, pos)), elements)

ArrayAt(text, p) ==
    IF CharAt(text, p) = "]" THEN POk(PyList(<<>>), p + 1)
    ELSE ParseArrayLoop(text, p, <<>>)

\* _parse_array, pos at '['
ParseArray(text, pos) == ArrayAt(text, SkipWhitespace(text, pos + 1))

\* _parse_object after a value: an optional ','
ObjectComma(text, p, result) ==
    ParseObject(text, IF CharAt(text, p) = "," THEN p + 1 ELSE p, result)

ObjectValue(text, key, r, result) ==
    IF ~r.ok THEN r
    ELSE ObjectComma(text, SkipWhitespace(text, r.pos), DictSet(result, key, r.val))

ObjectColon(text, key, p, result) ==
    IF CharAt(text, p) # ":" THEN PErr(LCTError)
    ELSE ObjectValue(text, key, ParseValue(text, SkipWhitespace(text, p + 1)), result)

ObjectKey(text, k, result) ==
    IF ~k.ok THEN k
    ELSE ObjectColon(text, k.val, SkipWhitespace(text, k.pos), result)

ObjectAt(text, p, result) ==
    IF p > Len(text) THEN PErr(LCTError)
    ELSE IF CharAt(text, p) = "}" THEN POk(PyDict(result), p + 1)
    ELSE ObjectKey(text, ReadIdentifier(text, p), result)

\* _parse_object, pos at the next key
ParseObject(text, pos, result) == ObjectAt(text, SkipWhitespace(text, pos), result)

ContractValue(text, idx, r, result) ==
    IF ~r.ok THEN r
    ELSE ParseContractLoop(text, r.pos,
                           DictSet(result, FieldPrefix \o IntToStr(idx), r.val))

ContractEquals(text, idx, p, result) ==
    IF CharAt(text, p) # "=" THEN PErr(LCTError)
    ELSE ContractValue(text, idx, ParseValue(text, SkipWhitespace(text, p + 1)), result)

ContractField(text, n, result) ==
    IF ~n.ok THEN PErr(n.err)
    ELSE ContractEquals(text, n.val, SkipWhitespace(text, n.pos), result)

ContractAt(text, p, result) ==
    IF CharAt(text, p) = "}" THEN POk(PyDict(result), p + 1)
    ELSE ContractField(text,
             ReadInt(text, IF CharAt(text, p) = "," THEN SkipWhitespace(text, p + 1)
                           ELSE p),
             result)

\* the field loop of _parse_contract: it ends at '}' or at the end of the text
ParseContractLoop(text, pos, result) ==
    IF pos > Len(text) THEN POk(PyDict(result), pos)
    ELSE ContractAt(text, SkipWhitespace(text, pos), result)

ContractId(text, id) ==
    IF ~id.ok THEN PErr(id.err)
    ELSE ParseContractLoop(text, id.pos, <<<<ContractIdKey, PyInt(id.val)>>>>)

\* _parse_contract, pos at 'C:'
ParseContract(text, pos) == ContractId(text, ReadInt(text, pos + 2))

BraceAt(text, p) ==
    IF CharAt(text, p) = "}" THEN POk(PyDict(<<>>), p + 1)
    ELSE IF Slice(text, p, p + 1) = "C:" THEN ParseContract(text, p)
    ELSE ParseObject(text, p, <<>>)

\* _parse_brace, pos at '{'
ParseBrace(text, pos) == BraceAt(text, SkipWhitespace(text, pos + 1))

HandleOf(id) ==
    IF id.ok THEN POk(PyStr(HandlePrefixLCT \o id.val), id.pos) ELSE id

\* a handle reference "&h_" + identifier
ReadHandle(text, pos) == HandleOf(ReadIdentifier(text, pos))

ValueAt(text, pos) ==
    IF pos > Len(text) THEN PErr(LCTError)
    ELSE IF Match(text, pos, "NULL") THEN POk(PyNone, pos + 4)
    ELSE IF Match(text, pos, "TRUE") THEN POk(PyBool(TRUE), pos + 4)
    ELSE IF Match(text, pos, "FALSE") THEN POk(PyBool(FALSE), pos + 5)
    ELSE IF CharAt(text, pos) = "@" THEN ReadHandle(text, pos + 1)
    ELSE IF CharAt(text, pos) = "#" THEN ReadHex(text, pos + 1)
    ELSE IF CharAt(text, pos) = "\"" THEN ReadString(text, pos)
    ELSE IF CharAt(text, pos) = "[" THEN ParseArray(text, pos)
    ELSE IF CharAt(text, pos) = "{" THEN ParseBrace(text, pos)
    ELSE IF CharAt(text, pos) = "-" \/ IsDigit(CharAt(text, pos))
         THEN ReadNumber(text, pos)
    ELSE IF IsAlpha(CharAt(text, pos)) \/ CharAt(text, pos) = "_"
         THEN ReadHandle(text, pos)
    ELSE PErr(LCTError)

\* _parse_value
ParseValue(text, pos) == ValueAt(text, SkipWhitespace(text, pos))

\* the end of decode: the whole input must be consumed
Consumed(text, r) ==
    IF ~r.ok THEN r
    ELSE IF SkipWhitespace(text, r.pos) <= Len(text) THEN PErr(LCTError)
    ELSE r

DecodeStripped(text) ==
    IF Len(text) = 0 THEN PErr(LCTError) ELSE Consumed(text, ParseValue(text, 1))

\* LCTDecoder.decode
Decode(lct_str) == DecodeStripped(Strip(lct_str))

decode_lct(lct_str) == Decode(lct_str)

(***************************************************************************)
(* LC-R.  An LC-R text is the sequence of its characters: an ASCII         *)
(* character is itself, any other character is written by its code point.  *)
(* The glyph table holds the strings of glyphs.py character by character:  *)
(* every glyph of the file is a string of two to four characters.           *)
(***************************************************************************)
LC_R_GLYPHS ==
    ("TRUE" :> <<"u00e2", "u0160", "u00a4">>) @@
    ("FALSE" :> <<"u00e2", "u0160", "u00a5">>) @@
    ("NULL" :> <<"u00e2", "u02c6", "u2026">>) @@
    ("HANDLE" :> <<"u00e2", "u0178">>) @@
    ("CONTRACT_START" :> <<"u011f", "u0178", "u0153", "u0160">>) @@
    ("FIELD" :> <<"u011f", "u0178", "u0153">>) @@
    ("CONTRACT_END" :> <<"u011f", "u0178", "u0153", "u201a">>) @@
    ("INT" :> <<"u011f", "u0178", "u0153", "u0192">>) @@
    ("FLOAT" :> <<"u011f", "u0178", "u0153", "u201e">>) @@
    ("TEXT" :> <<"u00e1", "u203a", "u00ad">>) @@
    ("BYTES" :> <<"u00e1", "u203a", "u00ab">>) @@
    ("ARRAY" :> <<"u00e2", "u2039", "u201d">>) @@
    ("OBJECT" :> <<"u00e2", "u2039", "u2022">>) @@
    ("COLLAPSE_L1" :> <<"u00e2", "u0160", "u2022">>) @@
    ("COLLAPSE_L2" :> <<"u00e2", "u0160", "u2014">>) @@
    ("COLLAPSE_L3" :> <<"u00e2", "u0160", "u2122">>) @@
    ("COLLAPSE_L12" :> <<"u00e2", "u0178", "u00a1">>) @@
    ("SEPARATOR" :> <<"u00e2", "u2039", "u2026">>) @@
    ("NEST" :> <<"u00e2", "u2014", "u2021">>) @@
    ("FLOW" :> <<"u00e2", "u2020", "u2019">>) @@
    ("BIND" :> <<"u00e2", "u2039", "u00af">>)

\* GLYPH_TO_NAME: the glyph strings that are keys of the reverse lookup
GLYPH_TO_NAME == {LC_R_GLYPHS[n] : n \in DOMAIN LC_R_GLYPHS}

\* char in GLYPH_TO_NAME, for one character of the text
is_lc_r_glyph(char) == <<char>> \in GLYPH_TO_NAME

\* char == self.g[name], for one character of the text
IsGlyph(char, name) == <<char>> = LC_R_GLYPHS[name]

\* the characters of an ASCII string
Chars(s) == [i \in 1..Len(s) |-> SubSeq(s, i, i)]

RECURSIVE Concat(_)
Concat(chars) == IF Len(chars) = 0 THEN "" ELSE Head(chars) \o Concat(Tail(chars))

RECURSIVE JoinSeq(_, _)
JoinSeq(parts, sep) ==
    IF Len(parts) = 0 THEN <<>>
    ELSE IF Len(parts) = 1 THEN parts[1]
    ELSE parts[1] \o sep \o JoinSeq(Tail(parts), sep)

\* value.replace('"', '\\"')
RECURSIVE EscapeQuote(_)
EscapeQuote(s) ==
    IF Len(s) = 0 THEN ""
    ELSE (IF CharAt(s, 1) = "\"" THEN "\\\"" ELSE CharAt(s, 1)) \o EscapeQuote(Tail(s))

Quoted(s) == Chars("\"" \o s \o "\"")

RECURSIVE LcrEncode(_)
RECURSIVE LcrContractFields(_, _)
\* the field loop of LCREncoder._encode_contract with its running field_idx
LcrContractFields(pairs, field_idx) ==
    IF Len(pairs) = 0 THEN <<>>
    ELSE IF Head(pairs)[1] = ContractIdKey THEN LcrContractFields(Tail(pairs), field_idx)
    ELSE LC_R_GLYPHS["FIELD"] \o Chars(IntToStr(field_idx)) \o <<" ">>
         \o LcrEncode(Head(pairs)[2])
         \o LcrContractFields(Tail(pairs), field_idx + 1)

LcrEncodeContract(pairs) ==
    LC_R_GLYPHS["CONTRACT_START"] \o Chars(StrOf(DictVal(pairs, ContractIdKey)))
    \o LcrContractFields(pairs, 0) \o LC_R_GLYPHS["CONTRACT_END"]

LcrEncodeObject(pairs) ==
    LC_R_GLYPHS["OBJECT"] \o <<"{">>
    \o JoinSeq([i \in DOMAIN pairs |->
                   LC_R_GLYPHS["TEXT"] \o Quoted(pairs[i][1]) \o LC_R_GLYPHS["BIND"]
                   \o LcrEncode(pairs[i][2])],
               LC_R_GLYPHS["SEPARATOR"])
    \o <<"}">>

\* LCREncoder.encode
LcrEncode(value) ==
    IF value.t = "none" THEN LC_R_GLYPHS["NULL"]
    ELSE IF value.t = "bool" THEN LC_R_GLYPHS[IF value.v THEN "TRUE" ELSE "FALSE"]
    ELSE IF value.t = "int" THEN LC_R_GLYPHS["INT"] \o Chars(IntToStr(value.v))
    ELSE IF value.t = "float" THEN LC_R_GLYPHS["FLOAT"] \o Chars(FloatRepr(value.v))
    ELSE IF value.t = "str" /\ (StartsWith(value.v, "&") \/ StartsWith(value.v, "h_"))
         THEN LC_R_GLYPHS["HANDLE"]
              \o Chars(IF StartsWith(value.v, "&") THEN Drop(value.v, 1) ELSE value.v)
    ELSE IF value.t = "str" THEN LC_R_GLYPHS["TEXT"] \o Quoted(EscapeQuote(value.v))
    ELSE IF value.t = "bytes" THEN LC_R_GLYPHS["BYTES"] \o Chars(BytesHex(value.v))
    ELSE IF value.t = "list"
         THEN LC_R_GLYPHS["ARRAY"] \o <<"[">>
              \o JoinSeq([i \in DOMAIN value.v |-> LcrEncode(value.v[i])],
                         LC_R_GLYPHS["SEPARATOR"])
              \o <<"]">>
    ELSE IF DictHas(value.v, ContractIdKey) THEN LcrEncodeContract(value.v)
    ELSE LcrEncodeObject(value.v)

encode_lcr(value) == LcrEncode(value)

(***************************************************************************)
(* LCRDecoder: the text is read one character at a time.                   *)
(***************************************************************************)
TokAt(text, pos) == IF pos >= 1 /\ pos <= Len(text) THEN text[pos] ELSE ""

StructuralMarkers == {"]", "}", ")", " "}

IsNumberChar(c) == IsDigit(c) \/ c \in {".", "-", "+", "e"}

\* LCRDecoder._read_number: the position after the number characters
RECURSIVE LcrReadNumberEnd(_, _)
LcrReadNumberEnd(text, pos) ==
    IF pos <= Len(text) /\ IsNumberChar(text[pos])
    THEN LcrReadNumberEnd(text, pos + 1) ELSE pos

\* _read_until_glyph: the position of the next glyph or structural marker
RECURSIVE ReadUntilGlyphEnd(_, _)
ReadUntilGlyphEnd(text, pos) ==
    IF pos <= Len(text) /\ ~is_lc_r_glyph(text[pos]) /\ text[pos] \notin StructuralMarkers
    THEN ReadUntilGlyphEnd(text, pos + 1) ELSE pos

UntilGlyphTo(text, pos, end) == POk(Strip(Concat(SubSeq(text, pos, end - 1))), end)

ReadUntilGlyph(text, pos) == UntilGlyphTo(text, pos, ReadUntilGlyphEnd(text, pos))

\* LCRDecoder._read_string from the character after the opening quote
RECURSIVE LcrReadStringFrom(_, _, _, _)
LcrReadStringFrom(text, pos, acc, escaped) ==
    IF pos > Len(text) THEN PErr(ValueError)
    ELSE IF escaped THEN LcrReadStringFrom(text, pos + 1, acc \o text[pos], FALSE)
    ELSE IF text[pos] = "\\" THEN LcrReadStringFrom(text, pos + 1, acc, TRUE)
    ELSE IF text[pos] = "\"" THEN POk(PyStr(acc), pos + 1)
    ELSE LcrReadStringFrom(text, pos + 1, acc \o text[pos], FALSE)

LcrReadString(text, pos) ==
    IF TokAt(text, pos) # "\"" THEN PErr(ValueError)
    ELSE LcrReadStringFrom(text, pos + 1, "", FALSE)

\* bytes.fromhex(s): ValueError on an odd length or a character that is no hex digit
HexParses(s) == Len(s) % 2 = 0 /\ \A i \in 1..Len(s) : IsHexChar(SubSeq(s, i, i))

RECURSIVE LcrParseValue(_, _)
RECURSIVE LcrArrayLoop(_, _, _)
RECURSIVE LcrObjectLoop(_, _, _)
RECURSIVE LcrContractLoop(_, _, _)
RECURSIVE SkipSpaces(_, _)
SkipSpaces(text, pos) ==
    IF TokAt(text, pos) = " " THEN SkipSpaces(text, pos + 1) ELSE pos

\* the separator a loop of the decoder skips after an element
SkipSeparator(text, pos) ==
    IF pos <= Len(text) /\ IsGlyph(text[pos], "SEPARATOR") THEN pos + 1 ELSE pos

LcrArrayElement(text, r, elements) ==
    IF ~r.ok THEN r
    ELSE LcrArrayLoop(text, SkipSeparator(text, r.pos), Append(elements, r.val))

\* the loop of LCRDecoder._parse_array
LcrArrayLoop(text, pos, elements) ==
    IF pos > Len(text) THEN PErr(ValueError)
    ELSE IF text[pos] = "]" THEN POk(PyList(elements), pos + 1)
    ELSE LcrArrayElement(text, LcrParseValue(text, pos), elements)

LcrParseArray(text, pos) ==
    IF TokAt(text, pos) # "[" THEN PErr(ValueError)
    ELSE LcrArrayLoop(text, pos + 1, <<>>)

LcrObjectValue(text, key, r, result) ==
    IF ~r.ok THEN r
    ELSE LcrObjectLoop(text, SkipSeparator(text, r.pos), DictSet(result, key, r.val))

LcrObjectKey(text, k, result) ==
    IF ~k.ok THEN k
    ELSE IF k.pos > Len(text) \/ ~IsGlyph(text[k.pos], "BIND") THEN PErr(ValueError)
    ELSE LcrObjectValue(text, k.val.v, LcrParseValue(text, k.pos + 1), result)

\* the loop of LCRDecoder._parse_object
LcrObjectLoop(text, pos, result) ==
    IF pos > Len(text) THEN PErr(ValueError)
    ELSE IF text[pos] = "}" THEN POk(PyDict(result), pos + 1)
    ELSE IF ~IsGlyph(text[pos], "TEXT") THEN PErr(ValueError)
    ELSE LcrObjectKey(text, LcrReadString(text, pos + 1), result)

LcrParseObject(text, pos) ==
    IF TokAt(text, pos) # "{" THEN PErr(ValueError)
    ELSE LcrObjectLoop(text, pos + 1, <<>>)

LcrContractValue(text, idx, r, result) ==
    IF ~r.ok THEN r
    ELSE LcrContractLoop(text, r.pos,
                         DictSet(result, FieldPrefix \o IntToStr(idx), r.val))

LcrContractField(text, n, result) ==
    IF ~IntParses(n.val) THEN PErr(ValueError)
    ELSE LcrContractValue(text, IntOf(n.val),
                          LcrParseValue(text, SkipSpaces(text, n.pos)), result)

\* the loop of LCRDecoder._parse_contract
LcrContractLoop(text, pos, result) ==
    IF pos > Len(text) THEN PErr(ValueError)
    ELSE IF IsGlyph(text[pos], "CONTRACT_END") THEN POk(PyDict(result), pos + 1)
    ELSE IF ~IsGlyph(text[pos], "FIELD") THEN PErr(ValueError)
    ELSE LcrContractField(text, ReadUntilGlyph(text, pos + 1), result)

LcrContractId(text, id) ==
    IF ~IntParses(id.val) THEN PErr(ValueError)
    ELSE LcrContractLoop(text, id.pos, <<<<ContractIdKey, PyInt(IntOf(id.val))>>>>)

LcrParseContract(text, pos) == LcrContractId(text, ReadUntilGlyph(text, pos))

\* the handle branch: '&' + what _read_until_glyph read
LcrHandle(raw) == POk(PyStr("&" \o raw.val), raw.pos)

\* int(num_str) of the integer branch
LcrInt(num, end) ==
    IF IntParses(num) THEN POk(PyInt(IntOf(num)), end) ELSE PErr(ValueError)

\* float(num_str) of the float branch
LcrFloat(num, end) ==
    IF FloatParses(num) THEN POk(FloatOf(num), end) ELSE PErr(ValueError)

\* bytes.fromhex of the bytes branch
LcrBytes(raw) ==
    IF HexParses(raw.val) THEN POk(PyBytes(FromHex(raw.val)), raw.pos)
    ELSE PErr(ValueError)

\* the characters LCRDecoder._read_number reads from pos
LcrNumberStr(text, pos) == Concat(SubSeq(text, pos, LcrReadNumberEnd(text, pos) - 1))

\* LCRDecoder._parse_value
LcrParseValue(text, pos) ==
    IF pos > Len(text) THEN PErr(ValueError)
    ELSE IF IsGlyph(text[pos], "NULL") THEN POk(PyNone, pos + 1)
    ELSE IF IsGlyph(text[pos], "TRUE") THEN POk(PyBool(TRUE), pos + 1)
    ELSE IF IsGlyph(text[pos], "FALSE") THEN POk(PyBool(FALSE), pos + 1)
    ELSE IF IsGlyph(text[pos], "HANDLE") THEN LcrHandle(ReadUntilGlyph(text, pos + 1))
    ELSE IF IsGlyph(text[pos], "INT")
         THEN LcrInt(LcrNumberStr(text, pos + 1), LcrReadNumberEnd(text, pos + 1))
    ELSE IF IsGlyph(text[pos], "FLOAT")
         THEN LcrFloat(LcrNumberStr(text, pos + 1), LcrReadNumberEnd(text, pos + 1))
    ELSE IF IsGlyph(text[pos], "TEXT") THEN LcrReadString(text, pos + 1)
    ELSE IF IsGlyph(text[pos], "BYTES") THEN LcrBytes(ReadUntilGlyph(text, pos + 1))
    ELSE IF IsGlyph(text[pos], "ARRAY") THEN LcrParseArray(text, pos + 1)
    ELSE IF IsGlyph(text[pos], "OBJECT") THEN LcrParseObject(text, pos + 1)
    ELSE IF IsGlyph(text[pos], "CONTRACT_START") THEN LcrParseContract(text, pos + 1)
    ELSE PErr(ValueError)

\* LCRDecoder.decode
LcrDecode(lcr_str) == LcrParseValue(lcr_str, 1)

decode_lcr(lcr_str) == LcrDecode(lcr_str)

(***************************************************************************)
(* The values the callers pass: members of every variant of the value      *)
(* model, as the Python values the codecs take them.                       *)
(***************************************************************************)
NullValues ==
    << PyNone >>

BoolValues ==
    << PyBool(TRUE),
       PyBool(FALSE) >>

IntValues ==
    << PyInt(0),
       PyInt(42),
       PyInt(-7),
       PyInt(2147483647) >>

FloatValues ==
    << PyFloat(FALSE, "314", 0),
       PyFloat(FALSE, "1", 0),
       PyFloat(FALSE, "0", 0),
       PyFloat(TRUE, "25", 0),
       PyFloat(FALSE, "1", 20),
       PyFloat(FALSE, "15", -7),
       PyFloat(FALSE, "1234567890123456", 14),
       PyFloat(FALSE, "30000000000000004", -1),
       PyInf(FALSE),
       PyInf(TRUE),
       PyNan >>

TextValues ==
    << PyStr(""),
       PyStr("hi"),
       PyStr("a b"),
       PyStr("say \"x\""),
       PyStr("back\\slash"),
       PyStr("line\nbreak"),
       PyStr("NULL"),
       PyStr("@x"),
       PyStr("h_abc"),
       PyStr("&x"),
       PyStr("&x y") >>

BytesValues ==
    << PyBytes(<<>>),
       PyBytes(<<0, 255>>),
       PyBytes(<<18, 52, 171>>) >>

HandleValues ==
    << PyStr("&h_abc"),
       PyStr(FromSpirv(SpirvA)) >>

ArrayValues ==
    << PyList(<<>>),
       PyList(<<PyInt(1), PyInt(2), PyInt(3)>>),
       PyList(<<PyNone, PyBool(TRUE), PyStr("x")>>),
       PyList(<<PyList(<<PyInt(1)>>), PyList(<<PyInt(2), PyList(<<PyInt(3)>>)>>)>>),
       PyList(<<PyFloat(FALSE, "15", 0), PyStr("a,b")>>),
       PyList(<<PyDict(<<>>)>>),
       PyList(<<PyBytes(<<1>>), PyStr("&h_abc")>>) >>

ObjectValues ==
    << PyDict(<<>>),
       PyDict(<<<<"a", PyInt(1)>>>>),
       PyDict(<<<<"a", PyInt(1)>>, <<"b", PyStr("x")>>>>),
       PyDict(<<<<"b", PyInt(1)>>, <<"a", PyInt(2)>>>>),
       PyDict(<<<<"k", PyList(<<PyInt(1), PyDict(<<<<"z", PyNone>>>>)>>)>>>>),
       PyDict(<<<<"key_1", PyFloat(FALSE, "25", 0)>>>>),
       PyDict(<<<<"C", PyInt(1)>>>>),
       PyDict(<<<<"a b", PyInt(1)>>>>),
       PyDict(<<<<"1", PyInt(2)>>>>) >>

ContractValues ==
    << PyDict(<<<<"contract_id", PyInt(902)>>>>),
       PyDict(<<<<"contract_id", PyInt(902)>>, <<"field_0", PyStr("test")>>>>),
       PyDict(<<<<"contract_id", PyInt(14)>>, <<"field_0", PyInt(1)>>, <<"field_1", PyInt(2)>>>>),
       PyDict(<<<<"contract_id", PyInt(14)>>, <<"field_1", PyInt(1)>>, <<"field_0", PyInt(2)>>>>),
       PyDict(<<<<"contract_id", PyInt(14)>>, <<"field_3", PyList(<<PyInt(1), PyInt(2)>>)>>>>),
       PyDict(<<<<"contract_id", PyInt(14)>>, <<"field_2", PyInt(7)>>, <<"field_5", PyStr("x")>>>>),
       PyDict(<<<<"contract_id", PyInt(1)>>, <<"field_0", PyDict(<<<<"contract_id", PyInt(2)>>, <<"field_0", PyFloat(FALSE, "35", 0)>>>>)>>>>) >>

CodecInputs ==
    NullValues
    \o BoolValues
    \o IntValues
    \o FloatValues
    \o TextValues
    \o BytesValues
    \o HandleValues
    \o ArrayValues
    \o ObjectValues
    \o ContractValues

(***************************************************************************)
(* The codec calls.  A caller holds one input and passes it through the    *)
(* module-level functions of lc_t_codec.py and lc_r_codec.py.              *)
(***************************************************************************)
NotCalled == [ok |-> FALSE, val |-> PyNone, err |-> "not called", pos |-> 0]

NoText == [set |-> FALSE, text |-> ""]

NoChars == [set |-> FALSE, text |-> <<>>]

Called(out) == out.err # "not called"

\* the comparison of verify_lct_bijection, False when decode_lct raised
SameEncoding(encoded1, decoded) ==
    decoded.ok /\ encode_lct(decoded.val) = encoded1

Reencoded(encoded1) == SameEncoding(encoded1, decode_lct(encoded1))

\* verify_lct_bijection: any exception of the three calls makes it False
VerifyLctBijection(v) == Reencoded(encode_lct(v))

EncodeLct ==
    /\ ~lctText.set
    /\ lctText' = [set |-> TRUE, text |-> encode_lct(input)]
    /\ UNCHANGED <<input, lctOut, bijection, lcrText, lcrOut, casVars, lcbVars, simpleCasVars>>

DecodeLct ==
    /\ lctText.set /\ ~Called(lctOut)
    /\ lctOut' = decode_lct(lctText.text)
    /\ UNCHANGED <<input, lctText, bijection, lcrText, lcrOut, casVars, lcbVars, simpleCasVars>>

VerifyBijection ==
    /\ bijection = "not called"
    /\ bijection' = IF VerifyLctBijection(input) THEN "True" ELSE "False"
    /\ UNCHANGED <<input, lctText, lctOut, lcrText, lcrOut, casVars, lcbVars, simpleCasVars>>

EncodeLcr ==
    /\ ~lcrText.set
    /\ lcrText' = [set |-> TRUE, text |-> encode_lcr(input)]
    /\ UNCHANGED <<input, lctText, lctOut, bijection, lcrOut, casVars, lcbVars, simpleCasVars>>

DecodeLcr ==
    /\ lcrText.set /\ ~Called(lcrOut)
    /\ lcrOut' = decode_lcr(lcrText.text)
    /\ UNCHANGED <<input, lctText, lctOut, bijection, lcrText, casVars, lcbVars, simpleCasVars>>

(***************************************************************************)
(*        PART III  -  The LC-B client (src/python/hlx_lcb_client.py)      *)
(*                                                                         *)
(* A Python int is unbounded.  It is written here in two's complement,     *)
(* base 128, low digit first: [neg, d] is the sum of d[i] * 128^(i-1),     *)
(* minus 128^Len(d) when neg.  The digits beyond d are all 0 (neg = FALSE) *)
(* or all 127 (neg = TRUE).  Bytes are a sequence of integers 0..255 and   *)
(* offsets count from 0 as in the source.                                  *)
(***************************************************************************)
Big(neg, d) == [neg |-> neg, d |-> d]

\* the base-128 digit that fills an int beyond its written digits
Fill(neg) == IF neg THEN 127 ELSE 0

\* the written digits without their trailing fill digits
RECURSIVE Trim(_, _)
Trim(d, fill) ==
    IF Len(d) > 0 /\ d[Len(d)] = fill
    THEN Trim(SubSeq(d, 1, Len(d) - 1), fill) ELSE d

Norm(x) == Big(x.neg, Trim(x.d, Fill(x.neg)))

\* a == b on ints
BigEq(a, b) == Norm(a) = Norm(b)

RECURSIVE DigitsOf(_)
DigitsOf(n) ==
    IF n = 0 \/ n = -1 THEN <<>> ELSE <<n % 128>> \o DigitsOf(n \div 128)

\* the int n, for an n that fits the integers of the model checker
BigOf(n) == Big(n < 0, DigitsOf(n))

\* value & 0x7F
Low7(value) == IF Len(value.d) = 0 THEN Fill(value.neg) ELSE Head(value.d)

\* value >> 7
Shr7(value) == Big(value.neg, IF Len(value.d) = 0 THEN <<>> ELSE Tail(value.d))

\* value == 0 and value == -1
IsZero(value) == Norm(value) = Big(FALSE, <<>>)

IsMinusOne(value) == Norm(value) = Big(TRUE, <<>>)

\* (byte & 0x40) != 0 and (byte & 0x80) != 0
HasBit6(byte) == (byte \div 64) % 2 = 1

HasBit7(byte) == (byte \div 128) % 2 = 1

RECURSIVE encode_leb128_u32(_)
\* encode_leb128_u32, for value >= 0 (the loop does not end on a negative int)
encode_leb128_u32(value) ==
    IF ~IsZero(Shr7(value))
    THEN <<Low7(value) + 128>> \o encode_leb128_u32(Shr7(value))
    ELSE <<Low7(value)>>

\* `more` of encode_leb128_i64, on the shifted value and the byte taken off it
More(negative, value, byte) ==
    IF negative THEN ~IsMinusOne(value) \/ ~HasBit6(byte)
    ELSE ~IsZero(value) \/ HasBit6(byte)

RECURSIVE EncodeI64Loop(_, _)
EncodeI64Loop(value, negative) ==
    IF More(negative, Shr7(value), Low7(value))
    THEN <<Low7(value) + 128>> \o EncodeI64Loop(Shr7(value), negative)
    ELSE <<Low7(value)>>

encode_leb128_i64(value) == EncodeI64Loop(value, value.neg)

\* a returned (value, new_offset) pair, and a raised exception
LebOk(value, offset) == [ok |-> TRUE, val |-> value, off |-> offset, err |-> ""]

LebErr(e) == [ok |-> FALSE, val |-> Big(FALSE, <<>>), off |-> 0, err |-> e]

\* the loop of decode_leb128_u32; result holds the digits read so far
\* (shift = 7 * Len(result)); data[offset] past the end raises IndexError
RECURSIVE DecodeU32Loop(_, _, _)
DecodeU32Loop(data, offset, result) ==
    IF offset >= Len(data) THEN LebErr("IndexError")
    ELSE IF ~HasBit7(data[offset + 1])
         THEN LebOk(Big(FALSE, Append(result, data[offset + 1] % 128)), offset + 1)
    ELSE DecodeU32Loop(data, offset + 1, Append(result, data[offset + 1] % 128))

decode_leb128_u32(data, offset) == DecodeU32Loop(data, offset, <<>>)

\* the sign extension is guarded by `shift < 64`
SignBits == 64

\* `if shift < 64 and (byte & 0x40): result |= (~0 << shift)`
SignExtend(result, shift, byte) ==
    IF shift < SignBits /\ HasBit6(byte) THEN Big(TRUE, result)
    ELSE Big(FALSE, result)

RECURSIVE DecodeI64Loop(_, _, _)
DecodeI64Loop(data, offset, result) ==
    IF offset >= Len(data) THEN LebErr("IndexError")
    ELSE IF ~HasBit7(data[offset + 1])
         THEN LebOk(SignExtend(Append(result, data[offset + 1] % 128),
                               7 * (Len(result) + 1), data[offset + 1]),
                    offset + 1)
    ELSE DecodeI64Loop(data, offset + 1, Append(result, data[offset + 1] % 128))

decode_leb128_i64(data, offset) == DecodeI64Loop(data, offset, <<>>)

(***************************************************************************)
(* LCBBatchBuilder.  An instruction is (contract_id, params); params is    *)
(* the dict of the source as the sequence of its entries in insertion      *)
(* order, each entry a name, a parameter type and a value.  A numpy array  *)
(* is its shape and its elements in C order; the elements of the model are *)
(* small non-negative whole numbers, which astype(np.float32) and          *)
(* astype(np.uint32) keep as they are.                                     *)
(***************************************************************************)
LCB_MAGIC == 826426188

LCB_VERSION == 1

TRANSFORMER_FORWARD == 903

TENSOR_GEMM == 906

TENSOR_LAYERNORM == 907

TENSOR_GELU == 908

TENSOR_SOFTMAX == 909

TENSOR_CROSS_ENTROPY == 910

ParamType_BOOL == 1

ParamType_INT == 2

ParamType_FLOAT == 3

ParamType_TEXT == 4

ParamType_BYTES == 5

ParamType_CHAIN_FROM == 10

NdArray(shape, elems) == [shape |-> shape, elems |-> elems]

\* arr.size
RECURSIVE Product(_)
Product(shape) == IF Len(shape) = 0 THEN 1 ELSE Head(shape) * Product(Tail(shape))

\* the value of a parameter: one field per parameter type
NoValue ==
    [arr |-> NdArray(<<>>, <<>>), int |-> 0, bool |-> FALSE,
     float |-> PyFloat(FALSE, "0", 0), text |-> ""]

TensorParam(name, arr) ==
    [name |-> name, ptype |-> "tensor", value |-> [NoValue EXCEPT !.arr = arr]]

IntParam(name, i) ==
    [name |-> name, ptype |-> "int", value |-> [NoValue EXCEPT !.int = i]]

BoolParam(name, b) ==
    [name |-> name, ptype |-> "bool", value |-> [NoValue EXCEPT !.bool = b]]

FloatParam(name, f) ==
    [name |-> name, ptype |-> "float", value |-> [NoValue EXCEPT !.float = f]]

StringParam(name, s) ==
    [name |-> name, ptype |-> "string", value |-> [NoValue EXCEPT !.text = s]]

Instruction(contract_id, params) == [contract_id |-> contract_id, params |-> params]

\* LCBBatchBuilder.chain: ("chain", result_idx), whatever result_idx is
chain(result_idx) == [ptype |-> "chain", value |-> [NoValue EXCEPT !.int = result_idx]]

\* the entry name: ref of a params dict
Named(name, ref) == [name |-> name, ptype |-> ref.ptype, value |-> ref.value]

\* the instruction of _add_instruction(ContractID.TENSOR_GELU, {"input": chain(k)})
chained(k) == Instruction(TENSOR_GELU, << Named("input", chain(k)) >>)

\* gemm: (m, k1) of a and (k2, n) of b after the optional transposes
RowsOf(arr, transpose) == IF transpose THEN arr.shape[2] ELSE arr.shape[1]

ColsOf(arr, transpose) == IF transpose THEN arr.shape[1] ELSE arr.shape[2]

\* `if k1 != k2: raise ValueError`
GemmMismatch(a, b, transpose_a, transpose_b) ==
    ColsOf(a, transpose_a) # RowsOf(b, transpose_b)

gemm(a, b, transpose_a, transpose_b) ==
    Instruction(TENSOR_GEMM,
        << TensorParam("a", a), TensorParam("b", b),
           IntParam("m", RowsOf(a, transpose_a)),
           IntParam("k", ColsOf(a, transpose_a)),
           IntParam("n", ColsOf(b, transpose_b)),
           BoolParam("transpose_a", transpose_a),
           BoolParam("transpose_b", transpose_b) >>)

\* input.shape[-1]
LastDim(arr) == arr.shape[Len(arr.shape)]

\* layernorm raises ValueError when len(input.shape) < 2
layernorm(inp, gamma, beta, eps) ==
    Instruction(TENSOR_LAYERNORM,
        << TensorParam("input", inp), TensorParam("gamma", gamma),
           TensorParam("beta", beta),
           IntParam("num_rows", Product(inp.shape) \div LastDim(inp)),
           IntParam("row_size", LastDim(inp)),
           FloatParam("eps", eps) >>)

gelu(inp) == Instruction(TENSOR_GELU, << TensorParam("input", inp) >>)

\* `if dim < 0: dim = len(input.shape) + dim`, then input.shape[dim]
SoftmaxDim(arr, dim) == IF dim < 0 THEN Len(arr.shape) + dim ELSE dim

softmax(inp, dim) ==
    Instruction(TENSOR_SOFTMAX,
        << TensorParam("input", inp),
           IntParam("num_rows",
                    Product(inp.shape) \div inp.shape[SoftmaxDim(inp, dim) + 1]),
           IntParam("row_size", inp.shape[SoftmaxDim(inp, dim) + 1]) >>)

cross_entropy(logits, targets, ignore_index) ==
    Instruction(TENSOR_CROSS_ENTROPY,
        << TensorParam("logits", logits), TensorParam("targets", targets),
           IntParam("vocab_size", LastDim(logits)),
           IntParam("ignore_index", ignore_index) >>)

transformer_forward(input_ids, config_json) ==
    Instruction(TRANSFORMER_FORWARD,
        << TensorParam("input_ids", input_ids),
           StringParam("config", config_json) >>)

\* struct.pack("<I", x)
PackU32(x) ==
    <<x % 256, (x \div 256) % 256, (x \div 65536) % 256, (x \div 16777216) % 256>>

Lowercase == "abcdefghijklmnopqrstuvwxyz"

Uppercase == "ABCDEFGHIJKLMNOPQRSTUVWXYZ"

\* ord(c) of the ASCII letters, digits and the punctuation of the model
Ord(c) ==
    IF HasChar(Lowercase, c) THEN 96 + FirstPos(Lowercase, c)
    ELSE IF HasChar(Uppercase, c) THEN 64 + FirstPos(Uppercase, c)
    ELSE IF IsDigit(c) THEN 48 + DigitVal(c)
    ELSE CASE c = "_" -> 95
           [] c = " " -> 32
           [] c = "{" -> 123
           [] c = "}" -> 125
           [] c = ":" -> 58
           [] c = "," -> 44

\* s.encode('utf-8') of an ASCII string
Utf8(s) == [i \in 1..Len(s) |-> Ord(CharAt(s, i))]

\* data.extend(...) of every part in turn
Extend(parts) == JoinSeq(parts, <<>>)

\* a LEB128 length followed by that many bytes
Prefixed(bytes) == encode_leb128_u32(BigOf(Len(bytes))) \o bytes

\* np.float32(e).tobytes() for the elements of the model
Float32Bytes(e) ==
    CASE e = 0 -> <<0, 0, 0, 0>>
      [] e = 1 -> <<0, 0, 128, 63>>
      [] e = 2 -> <<0, 0, 0, 64>>
      [] e = 3 -> <<0, 0, 64, 64>>

Eps == PyFloat(FALSE, "1", -5)

\* struct.pack("<d", value) for the floats of the model (eps = 1e-5)
Float64Bytes(f) ==
    CASE f = Eps -> <<241, 104, 227, 136, 181, 248, 228, 62>>

\* [ndim:u8][shape as u32 each][elements as float32]
TensorPayload(arr) ==
    <<Len(arr.shape)>>
    \o Extend([i \in DOMAIN arr.shape |-> PackU32(arr.shape[i])])
    \o Extend([i \in DOMAIN arr.elems |-> Float32Bytes(arr.elems[i])])

\* the type tag and the value of a parameter; a parameter type that build()
\* does not know adds nothing after the name
EncodeValue(ptype, value) ==
    IF ptype = "int"
    THEN <<ParamType_INT>> \o encode_leb128_i64(BigOf(value.int))
    ELSE IF ptype = "float"
    THEN <<ParamType_FLOAT>> \o Float64Bytes(value.float)
    ELSE IF ptype = "bool"
    THEN <<ParamType_BOOL, IF value.bool THEN 1 ELSE 0>>
    ELSE IF ptype = "tensor"
    THEN <<ParamType_BYTES>> \o Prefixed(TensorPayload(value.arr))
    ELSE IF ptype = "string"
    THEN <<ParamType_TEXT>> \o Prefixed(Utf8(value.text))
    ELSE IF ptype = "chain"
    THEN <<ParamType_CHAIN_FROM>> \o encode_leb128_u32(BigOf(value.int))
    ELSE <<>>

EncodeParam(p) == Prefixed(Utf8(p.name)) \o EncodeValue(p.ptype, p.value)

EncodeInstruction(ins) ==
    encode_leb128_u32(BigOf(ins.contract_id))
    \o encode_leb128_u32(BigOf(Len(ins.params)))
    \o Extend([i \in DOMAIN ins.params |-> EncodeParam(ins.params[i])])

\* hashlib.sha256(struct.pack("<I", n)).hexdigest() for the instruction counts
Sha256OfCount ==
    (
         PackU32(0) :> "df3f619804a92fdb4057192dc43dd748ea778adc52bc498ce80524c014b81119" @@
         PackU32(1) :> "67abdd721024f0ff4e0b3f4c2fc13bc5bad42d0b7851d456d88d203d15aaa450" @@
         PackU32(2) :> "26b25d457597a7b0463f9620f666dd10aa2c4373a505967c7c8d70922a2d6ece" @@
         PackU32(3) :> "9d9f290527a6be626a8f5985b26e19b237b44872b03631811df4416fc1713178" )

\* batch_id: the SHA-256 digest of the instruction count
BatchId(n) == FromHex(Sha256OfCount[PackU32(n)])

\* magic, version, batch_id, number of instructions
Header(n) ==
    PackU32(LCB_MAGIC) \o <<LCB_VERSION>> \o BatchId(n)
    \o encode_leb128_u32(BigOf(n))

\* the bytes of build() before the signature is appended
BuildData(instrs) ==
    Header(Len(instrs))
    \o Extend([i \in DOMAIN instrs |-> EncodeInstruction(instrs[i])])

(***************************************************************************)
(* The arrays passed to the builder, the instructions its calls add, and   *)
(* the digests of hashlib on the batches of up to two such instructions.   *)
(***************************************************************************)
T12 == NdArray(<<1, 2>>, <<1, 2>>)

T21 == NdArray(<<2, 1>>, <<3, 0>>)

V2 == NdArray(<<2>>, <<1, 1>>)

Targets == NdArray(<<1>>, <<1>>)

Menu ==
    << gemm(T12, T21, FALSE, FALSE),
       gemm(T21, T21, TRUE, FALSE),
       layernorm(T12, V2, V2, Eps),
       gelu(T12),
       softmax(T12, -1),
       softmax(T12, 0),
       cross_entropy(T12, Targets, 0),
       transformer_forward(T12, "{}"),
       chained(0),
       chained(1) >>

\* the instruction list named by a sequence of positions in Menu
BatchOf(key) == [i \in DOMAIN key |-> Menu[key[i]]]

\* hashlib.sha256(data).hexdigest() of the data of BatchOf(key)
Sha256OfBatch ==
    (
      <<>> :> "3727f840083ff69c674f5b28b96e8a23048a8ebaab46d3f8d9ecefc3ab673e88" @@
      <<1>> :> "aa3afbfbefb3b4f27557c60ad4dd610b968c0ea18a7ca934547e431e908c7bbd" @@
      <<2>> :> "a99fbf312ce22223576e1ed9bc764beadae51f185f825a4f7d0d9629de0f32fc" @@
      <<3>> :> "06b16bb8cff3128acf7fcc5bf49c61dbe2a20165ea9dbd1f678f9a2836a214c7" @@
      <<4>> :> "baac2a83a91f9f1221c5d15b7dc9e7d1cb73a9f950a5d272cde993a676ff2ac0" @@
      <<5>> :> "8050972ac3d076309957ce9caa513a4fff5032268cff12d9c53d9f31d13ee3c5" @@
      <<6>> :> "ee959185e8bb29fad3faa2272aa7eb10d223dc1d0e8338a506bb334f501f04e3" @@
      <<7>> :> "9a54c6b9e26643418b9275047d6dd42e4b1e7c0ca080f6e8fe34ee3fbb7408a3" @@
      <<8>> :> "4e40fe885c4abd6ea4849b27f735711ea468e2abcc637a24336130cd430278bc" @@
      <<9>> :> "50434670631f2701cc3109345154491c9010678def0a2a2f7342fc08544da1fb" @@
      <<10>> :> "276f033233d0c6f0994d019da1d1f3f6e8d641b2ef7103f0a775c267ffed3c5e" @@
      <<1, 1>> :> "b8cadaa39b64f607227bf9d7d7aa8a7d2b86f7439d4f6948a948d9864b575425" @@
      <<1, 2>> :> "e4fc3e7b1ee3f1176d12b91658fc0cba6dddccd84518338dbcbe21075751385f" @@
      <<1, 3>> :> "c26fad958266fcbb1a7c5af4e438d9210972455a46ea1f823c76a9488f7ac858" @@
      <<1, 4>> :> "8d49690112c4523f6b78fb2af0a5d7d4569a527f97033de0c8f830b39cb5eeca" @@
      <<1, 5>> :> "106d0e2f17379177ef1c6cd9792e51cf502ba8b3305036088b6e243b440cc855" @@
      <<1, 6>> :> "c660e225f4772a784b012d5764c7a45e4f51218f2974a19417be5899efc2bf22" @@
      <<1, 7>> :> "0edbc649b837ee5dca9c6743cde2e429055baa757aeb7cb0ab9eebbe8c6ed5f1" @@
      <<1, 8>> :> "c754eee9a26ac610915d25e932c572c7000e9de432f6f006ff254f8c010ec3af" @@
      <<1, 9>> :> "5dee4001272c2e947a6bb8d99ea9000e1a62baee38d5e7e1ea439f51968c42a2" @@
      <<1, 10>> :> "b40881e3af6bde19e610d397d2665dbf0dd9eada6f7ac6cfbdec72fa4f912818" @@
      <<2, 1>> :> "9a16bd89f91d58ec25bde076d00aee687ce1c6242011393b9b0042242d8b426e" @@
      <<2, 2>> :> "d468473633674d895418807a475194542a40379c3fa46d3b6a787f152a504a36" @@
      <<2, 3>> :> "13acb98ca0cf9a02b81229f6626cdafbf2e85c26404d72fab92f93e35e93fe3f" @@
      <<2, 4>> :> "2aa11863eabf80f9e8138d1a6eebabce7fc42a9745f1a26d759054255c4f79bc" @@
      <<2, 5>> :> "928e639360199b9e479b8855cee806b9de84c3d39ea74719e729f6025a9c2507" @@
      <<2, 6>> :> "c0c5e6a23cfe670901a139de791b847cbed0f5a995f84e716fcba17ed55e2eec" @@
      <<2, 7>> :> "fb3a7724c0dd6f93da552c8f48b9b0bd22f18eb06784da4c5c75eb830f43e3c5" @@
      <<2, 8>> :> "f2786a9b8103bd97493863a62a99e783f9c064d63e2a3c21dd3db4b073bbd3d5" @@
      <<2, 9>> :> "f8a64158bfb64f7c241b8ef032e2f9c4845c34f02aabddbf5e42cdbb62592fff" @@
      <<2, 10>> :> "93e26da8b0900b157b827ba7ce09705eca04030e2b753ce41050b38906b142c9" @@
      <<3, 1>> :> "10f9b5a8754f881da127fa7367d89926e78d6adbcbc7e9b8b2a63bc5e6cd0da6" @@
      <<3, 2>> :> "7ca52d72ca5435d03530b08f0dab61d5d751423480668ecbb016cc7e54afb0c8" @@
      <<3, 3>> :> "533473759ab934ffe5da1f6acc28d204cf7d56129c9470d9a10330f36a9e2fa6" @@
      <<3, 4>> :> "57a10fcd5ee2ffbc681de2a2594f83a2f69025fefad3d0dfeb0a0404741fecc6" @@
      <<3, 5>> :> "24e204fd9023fff54bc701ec45af56c2dbf27880c7dab1dbc8a05ace406d32f3" @@
      <<3, 6>> :> "d0bc23df18b99909d1b8694222a45db2c8b3b1ff825ebf4c7af35ac64911fa2c" @@
      <<3, 7>> :> "89f85e302159ae7860ef66c118c15f5ca82761fe613b37c1955d3f24b0520af0" @@
      <<3, 8>> :> "b169982303c0ab5e35f14a792a198620740f80046dbbc28f142b1f4f727b4040" @@
      <<3, 9>> :> "f83b1cb41b11c9a76c6b25973a2804d295db57693ae606147c7766213459a3d5" @@
      <<3, 10>> :> "f109b94d6609303437981b02d19ab6825535de0bfbbef8a39fb95b4565ec31e3" @@
      <<4, 1>> :> "d896680dcade6fefc262417f2775c15dc7bc22a3d0c9933d5a9f9ee0239d36da" @@
      <<4, 2>> :> "74d207bea3b1479919669cb3e399899a9031dabf9c39733bf3cc9df51da85817" @@
      <<4, 3>> :> "b09fc100e1bb9f85198b50505ff924454fe1ac55b3eae0f31789db5ae0a946cf" @@
      <<4, 4>> :> "ebfdb1382cdfec6ac778623d3749b28b6026836ab883e0642c7a241ee7ad77eb" @@
      <<4, 5>> :> "f11f50932fddf228a0c14ac6d76fa763326587c37364ce291047cd5f4880d18c" @@
      <<4, 6>> :> "8b0bac49dc82beddae9051e05a017cee2e7e122ebb9be3a907d60ecc87260e88" @@
      <<4, 7>> :> "60563f0867c44c5b87f174a59c95516d49de61a704386cdbf9359184615fdc26" @@
      <<4, 8>> :> "32ce072c64a6444c641198c8bbbfd1164325e103dc5d902d815a38c7d62bec09" @@
      <<4, 9>> :> "63a5086f93d366862c2ba8cc821b256d5a28c68ea7d72a3342a6ce044ca34787" @@
      <<4, 10>> :> "0c7f56b76592cece940686ddf738caf499e5e28b3454687df904d093cfbd4010" @@
      <<5, 1>> :> "c00f50afdd812d126d39fc272ad184063cca0444b1ca571773befc7933ec8e01" @@
      <<5, 2>> :> "82e3a04ff0f932794480e14389469f272a1b4ec21db8688e0a7d4a55111b3731" @@
      <<5, 3>> :> "928f788ceb62cb5bae68c160b5273e9edcdd68ea3db7ac784322c5627d8bd515" @@
      <<5, 4>> :> "4f98fe4ea98f8cde8fd223a550b1f64403f41fdad97547a2a8a389f882a7940b" @@
      <<5, 5>> :> "ed7ee9f2e680947e0673956edc78ce37572844d9148d7fe5aa2bf61814a4f4e5" @@
      <<5, 6>> :> "8a03cc64ca159091f515ec5496d3f1d3bfbf8977a355f23468875f84503039de" @@
      <<5, 7>> :> "b38ce28b1f3f3d379b3b1e3e6a3546fc386ccff7fa743505cab94b0e85c8c68d" @@
      <<5, 8>> :> "6dbe85d38c5859a7f0ab6f9e6e8b3a9e39900b569bedd5ad8501d07e1ab25775" @@
      <<5, 9>> :> "ba2d8ceba54011d12d122305406a49916a6f9e508d1712c187f6b4cd16a720a7" @@
      <<5, 10>> :> "16c994d8f6b51b0ec61175c016368f0df33248558167f335d45653f5403445df" @@
      <<6, 1>> :> "422a2600333b0279124b30a5f1fae0badcfcc0d32e314d9e769ceed09dd746be" @@
      <<6, 2>> :> "0341902e0ced7ff4d174ec208869736ad1750ab286807cf88c5250e8a28cce85" @@
      <<6, 3>> :> "43daceff37a102ea24d83d95c4492caaf7afec7c5b9e122624ae05c25a0b029b" @@
      <<6, 4>> :> "90fa4f5f5d16cf5f785e5647a31a3d091e090be7819c930de0262562e149feb0" @@
      <<6, 5>> :> "07cc754a8f970f42fe20ef7b909c87198f6bbeac6c8e4a731acae30cc33d4935" @@
      <<6, 6>> :> "596457267ecce4595ab97768ac5aafa06f2d5b4630b70811c6b67f3f1d4abc93" @@
      <<6, 7>> :> "920c3b5ca95ff9cfc5ec96900567f604c1a6722fca93610d89f5303737733921" @@
      <<6, 8>> :> "3b9fdfaa6fe29e481e91ee6740b85837acb74deb3cfe52113e81c4e64e1c0934" @@
      <<6, 9>> :> "a73f3d55c3dc342d90e845d84b1bfbc069d0ed76b5ae4c9cf31c5e2c920af661" @@
      <<6, 10>> :> "ad9c50aeb556cdd60904b0b9d03ce85ef548992d8424cc31dde46e77a8a3c3c8" @@
      <<7, 1>> :> "0721a508579ad1cd4c84ca413ca12398431c77f2ea8a211602c5bc9c96d4c1aa" @@
      <<7, 2>> :> "675862bf0d6b970d0e496c52d79ae12bf1342e4e840ce1459305c32ef95c83f6" @@
      <<7, 3>> :> "93a266676b600b75fcb948acb625a3f0c73fb3906951cbb5c690e6b9ad9f44cd" @@
      <<7, 4>> :> "b6763cc9680b5750db8432834bf3b14dc3099bd896276ccfbe74de8ea07891b4" @@
      <<7, 5>> :> "1cc1e3b3c275b1850ae91ba2e583335b94da5a09554ca955945ae4d2ca9892ad" @@
      <<7, 6>> :> "ba53b87586991632b7e63fa6a2ae906fb0bc4d3c7b8ee4edb0e7ba082177aee2" @@
      <<7, 7>> :> "f2243baa679de173510958fdb42ad9a7faadfb5a6f0680d7aeb0a59c992bf0d0" @@
      <<7, 8>> :> "9485f9aad0b3a3fa02f1f080a0b34c27fee2740b4efb1ea3c7024d2453cb5789" @@
      <<7, 9>> :> "e809f14a4a589519f4d0fff05b322ed1f055ce32646a46b08ab16aa2e17af341" @@
      <<7, 10>> :> "7791f5cc134ed853d2bec752c5fa7ae5ab4ee6d675865327686c753d993ec7b6" @@
      <<8, 1>> :> "cb901bf5f34d92eb3abe5832dc0c8aea90311aabd8c5986252e129d4b73780d4" @@
      <<8, 2>> :> "aa64b505827b4cc3ff7bed99be63b77ac3e531b7c360e9aafdaaf8fafa131f97" @@
      <<8, 3>> :> "ec4805f5bfa553364d69f37c5f3da508e170e27a38308a412603ae6c9960fcee" @@
      <<8, 4>> :> "cabedbadb955a0541723545a3824636a6e181556edcab02bb8e4727a2c5a3545" @@
      <<8, 5>> :> "98b3d79c06f8d74afb6aa2c005e46c34f52a3afe7d994b6f287e2a738f17d4c8" @@
      <<8, 6>> :> "eca9674a1e5a2dcfd34fbe75fcb2c1de822e32b452daf2f1d3b78044e79c6c12" @@
      <<8, 7>> :> "c544e7a61878f04797ee8f3b8afe148ea17d926be2de78f218339d313b353460" @@
      <<8, 8>> :> "5716864dfa71f642b0a4395d2434475873cafad3fb1c373ed3cf026c2a5fc129" @@
      <<8, 9>> :> "ccd100f25477b6afddacf719f163759908567efa5f1a26e6587ff72621e3188a" @@
      <<8, 10>> :> "f172e539bb587820560473994e23b3aecc990feb7472e336c07faa9da197040d" @@
      <<9, 1>> :> "8e013ea6ef302233cd9cd86d33efb7a1e583d70a35f3cffa2fb3de9957fa6c13" @@
      <<9, 2>> :> "0bba74c12b1ee02c6dd144bd61e0aa2e406ca7e6ce5b1b2e7613bf1dfe508a17" @@
      <<9, 3>> :> "5c804f5efbd2fd81cfd1907db7cdd0b55376e50884979b8b2616fcfec83389da" @@
      <<9, 4>> :> "49458c56667bd211587f835ad3c1c16f350a1988187d2c6a8bce370da67dfa0d" @@
      <<9, 5>> :> "22dcc5fc25a31ee4769c0451eb3bbf05bbece6e68755c5cd9b9105dffef76125" @@
      <<9, 6>> :> "fff525bce966271167bba2c63637580d82c0d607cebe4aaa14003c109676a3a8" @@
      <<9, 7>> :> "e6b14b4b84c4c9b72c3507a3ef80835ecf4cb10deaca1e9ed56231a99b57a6ad" @@
      <<9, 8>> :> "f57980d43246b6d1bb75c34e981d6aca74aea4c3e54b52d736ead4903e1331a5" @@
      <<9, 9>> :> "b531e0e196dc2cb7b938460423afb3fa9216567b59c19012c13ed0162aca5494" @@
      <<9, 10>> :> "772636d50cbd4a61570f8518572069e89365ad7635e1c6c92a50204a801ad43a" @@
      <<10, 1>> :> "7d29757180327b2264f042c83baaeaca59b9223aef961ba0823ea934ab3acbda" @@
      <<10, 2>> :> "60941b282b98ecae33378d3ce9f58761cd02fba7eb803ebeea3d45f0069fd76d" @@
      <<10, 3>> :> "cd1524daa1dffcd71f32691d9b3220d22c70131ee8f9db70c35a7525107a06c9" @@
      <<10, 4>> :> "8de31073d25e7ff728039717f36b0447233816a3396015b21d230a8f85d338df" @@
      <<10, 5>> :> "8f3df3893040482b96f8dcd82f60f02d01da5524196de57a034fafecc6480149" @@
      <<10, 6>> :> "3d60258e4ad984b2b414e69f5df825bbc8e312fab255e2a9af458af7934b6335" @@
      <<10, 7>> :> "18470e1be5dcac420ae072258abcbd0a0a042e9e8a1a68569f8eef9ef9745821" @@
      <<10, 8>> :> "634469a929032b5eb271282b455e96bb4961f4ebe391d43c1bd10a6162f5fdbb" @@
      <<10, 9>> :> "5bbb3de8aed6597635c52468c459c5f9376eee1892e1e0ed688bc7d99d913154" @@
      <<10, 10>> :> "930141ea2dc75adaaf1c6a8362e5b0a27509b7a58189f451dd7495c696c6a143" )

Blake2bOfBatch ==
    (
      <<>> :> "d51ed7f1854bc268356e030e682ea7f0d2fc8326cff670527ba3599bf1851b08" @@
      <<1>> :> "baeb252f17b4d697fb129c41c4d7ed2a521e19f4b63ba71185418b8294fc223f" @@
      <<2>> :> "8863f37dba0662fcb2321de7bfdbca179319ed6ecfdd3de77bd1588dfae712f0" @@
      <<3>> :> "4aad744b60ad833ceb7ce12214eac7a19077f7f1c2766cf03b9c13f8fb7315e3" @@
      <<4>> :> "de9689befd9d3f011893103cd65c3b9493e57b0b8e094ae56c5b02b553a705a3" @@
      <<5>> :> "3e177ef1081dbb71cedcd90996f1a41d9187c297e697c13c58e85d18f51569eb" @@
      <<6>> :> "f3a1d12daafd669305b719f1b53db26b574dbc322876d959280ae181b1555456" @@
      <<7>> :> "17579aafe34e299a9505c75c76d06b74defff110b27b5609f86413b5a4a991ac" @@
      <<8>> :> "b3947fc34575ac5b86b6406939051d6c0a638eb506353c8cccef62dc293891e3" @@
      <<9>> :> "2bd9105e61dd8776c50b84f9f2e8e0e6220911544b0d60e5e624e4d3bf02962c" @@
      <<10>> :> "40e97a2eaf9a1c56361ad8017b347675db34a71843ffbf44b9298d3f84be39d9" @@
      <<1, 1>> :> "395ca013fb97e338d6f1f28b6751a409f5b3e0d43452ec3600e45b7030e7ee13" @@
      <<1, 2>> :> "5dc08acb254b6a2731b4ffb2a4ddcaa6ad7873433c38ac1cb3126bfd6e2aaf2f" @@
      <<1, 3>> :> "1760ac2c3518db820f57bbeac6dc067b8c4f62fe8605da429bdac3a1ebe64270" @@
      <<1, 4>> :> "0ff7a3b09d528fc49977e3f7449acf2ef87e28ad8294684ad3b466c56964fb12" @@
      <<1, 5>> :> "5d6f710284bf8c15c8bc09676e410efc38212725bd93b906a2918770f4221959" @@
      <<1, 6>> :> "1e392946f0c6f9a7439f23ef85cd57c06b717f152e5c28b63f2383c6dd98e5b1" @@
      <<1, 7>> :> "12869aa6974b500795b53914275c63dbc02a59ca3e046e5d86199d6695f19c06" @@
      <<1, 8>> :> "df9de2f7a94fe23cf7559fa5083bdf52c33ecc3a40d6d40615bc270ff1f9906d" @@
      <<1, 9>> :> "0881358c932bfd18ad83b1fb7f28062f064a8289c4c7255a55c47a238b87be71" @@
      <<1, 10>> :> "a2a123a87093609f45f0009faf20f13ba6f845e9340353a50498ea1b6a61e672" @@
      <<2, 1>> :> "c6eb30aa0cd7b0d887556265edec8b8c6b9e1ab13d87f11af3ee6c51c10af567" @@
      <<2, 2>> :> "dfeb338f77669b05b4a486134d83bbcbf7eebee6862e7c98827ddde5859f61fa" @@
      <<2, 3>> :> "f2156830c69d6159a92529a68bbc13750d0541f6fa853ab3521e317a4b87848a" @@
      <<2, 4>> :> "bb89bdf94b21148ee47f47dd4c7f29568edce632a38ca91591d36ee6e8e24c2c" @@
      <<2, 5>> :> "b453317f4c3216124640fdbfe5f03f7596ba75df474e827a408f0c114f6b2206" @@
      <<2, 6>> :> "c9195faa2713a65080881be94914717130594cd1594e4643edde4fc3baebb379" @@
      <<2, 7>> :> "a93100b1c896c00c134c253c1dcee845352423c8b6452b3619bde379a4ed5578" @@
      <<2, 8>> :> "268b1e9476b5a833b34f4a4c23b54a63b1744ecbcf47e1bf15b52538fb6fb307" @@
      <<2, 9>> :> "b586d0950c04802252882f89ba826e5c65b5fa751698a89644427adb23379a6d" @@
      <<2, 10>> :> "b749e908c815669e7bfcd8cb8933f1a6512b4a98c99840be549adb6c0baaef4c" @@
      <<3, 1>> :> "c489157c8c37900e61033d7406d18970e1977f4be2e352672948f2fc88705d8c" @@
      <<3, 2>> :> "3961bdff71b278a15d133986d5acedced161e5fb34e117ccf589f47d7a9123ef" @@
      <<3, 3>> :> "2c3f42ebbf1b7536fe9066dc67e87e0fa9061c63f6ea48056016ef602d8d0dae" @@
      <<3, 4>> :> "c8eef9486bfb8e73d2c872c2a6ee404882519ca741304e5381e11666a7af9a51" @@
      <<3, 5>> :> "237290f4c0b58793ce47399982635ac75a350e5170117c5066f474037e2bd707" @@
      <<3, 6>> :> "163f2c90063ab601f6749a64541d4542ec23b8da63de7f37b079e05688fd01ca" @@
      <<3, 7>> :> "732a1fc5263c1b4e140d4276699e9766cc90fa1e95b4868933d85a37c800098a" @@
      <<3, 8>> :> "417bb117d9e40bb88980e2a9479eab080dfd0b82da1e75d2ad40c5256a4a1a8c" @@
      <<3, 9>> :> "9cf93f1b99ca834cb1a6cc35e6da251afb36964e8450e77592ed3f44580432a5" @@
      <<3, 10>> :> "738aae211eafbb6aa65962145f2ccaedb3632c2d25f37b4f96aad106857a64ca" @@
      <<4, 1>> :> "df991e460d84444a63ce92ee66f3b3b3e19ec3e0a98b517cde11f54fa257dd9b" @@
      <<4, 2>> :> "2a7306520bff7261462a970e85818c6b23b240dc0fc431d9bca4154400e948b8" @@
      <<4, 3>> :> "8605e2a6f093dd17224f7d7aa42a2198000a4d54584fa875b29ae9fc644b961d" @@
      <<4, 4>> :> "4328079c00be8a5dc5fea797b1ca02b09a435de5e795f2b2634b584688f37a95" @@
      <<4, 5>> :> "482c87e13a82909f6b3611d949efe3ad907c19176980d7029d0c582ee249a16f" @@
      <<4, 6>> :> "3c8d409e09c43bf4d8da16980b84edae2607e3a6962b567c6c2427329a4c7cac" @@
      <<4, 7>> :> "cb4d739a01338bd20b52d4c3de25f009bba054781cb80908b26a26669eaa1b06" @@
      <<4, 8>> :> "1a868b21ba431ddbea716f582aa8c12ccf649165236d6bd53341e5d99d0808c0" @@
      <<4, 9>> :> "9cdf3804a1b8d1cf0f11aba7084a50639ce3718d38857d44d8ee828309dafa23" @@
      <<4, 10>> :> "d175fca43bc52952d78c64212d302d512dab77d0c794984b8b3e69dd010d73b7" @@
      <<5, 1>> :> "e887e8080ec7d19c2bb9ef72ad30bfaf133923770dd46b8c400ddd41959d5368" @@
      <<5, 2>> :> "47704ce646a2a52e05a13d2c24dff2c248e6c648c4db55304ab396018e379838" @@
      <<5, 3>> :> "66056d54c6d0ee5f7638f2fdef0a33828f59839360a4a464961b21b308243505" @@
      <<5, 4>> :> "11f5d151f9d01529e1a00f19566efb7e16605bb516600caae9221875b464c22b" @@
      <<5, 5>> :> "a529a91866b02f70b799767deece13beca1463e7b9ea243cf4f946776a593285" @@
      <<5, 6>> :> "3b730d9be69cd5aff2c85f64b73c84c9c0f0e6f58bad0304697ddb90d7a29fb7" @@
      <<5, 7>> :> "fa489a41deec945469dc2cce686fc02dd6ccfbac87c0c3dcef8f9a3739f7ea08" @@
      <<5, 8>> :> "b3557c9a3c826a7b178174f9e1ddbecaa9fe1dd3e7c18e8862bd10d33856b9a5" @@
      <<5, 9>> :> "f8da28b04441d21d38abecd2c2dab79daeb78912871cc3bd3db916563d3a96e5" @@
      <<5, 10>> :> "36e2c2b0ec68503003202aaf5dec54f42ce051229c1ec855c16fc6ac0469df18" @@
      <<6, 1>> :> "fe97a49de776f49645608ee53d4e1acc60426b27a7fde8979bacb7bdb31dee19" @@
      <<6, 2>> :> "da14cb4f7fc988d4304785ac35aa20643bc5663c05399bfe35c54ac3eab748bf" @@
      <<6, 3>> :> "89a98cafdb86a3609c2c9a1db2883c12dd4cf00d989fec021db174b16be162b0" @@
      <<6, 4>> :> "c72a9e3e759aadc6e70e05076e29511a3d94ab4571f503738f9990b4d4dad6eb" @@
      <<6, 5>> :> "be06d162349c372da594d6b7816027db20ecc71e9ad8403af5255f4431b0018d" @@
      <<6, 6>> :> "ed0883d84e57d06b03115765731548b35b77304e6ed9f703e74cb25206c1298d" @@
      <<6, 7>> :> "413bacb83726cb34f2bdb2ba8bd322505f1c52d6377540928e9b2f3d1ffda485" @@
      <<6, 8>> :> "ed318f4cde637d4cf103caee8c2491d2d2c648094f02853e841e91856fad008f" @@
      <<6, 9>> :> "74f5c817361fc4200521f3c6cb24793ad6e0c048fcde0e5cbfc7387e2a9ed263" @@
      <<6, 10>> :> "ff580251f8af9aafdc00fa385ffb59e7560c657aeb33279493c059a358731339" @@
      <<7, 1>> :> "6551b42f1a084b926e9316e4e1d435971fa1be954f6a38d8ccbae68ce1d1b770" @@
      <<7, 2>> :> "7e07fab6c62385aa403935fd5154c8a83154a94b5853854d16a62590e87fa5dc" @@
      <<7, 3>> :> "83075fea805cec2ce5e5746847d31ac4abedbf85ca81bc6ebf32b4dd2063cd14" @@
      <<7, 4>> :> "28f0b68e04426dcdd5aa1905350bcad35c8a940cee7601c64633586714a5c5b0" @@
      <<7, 5>> :> "5623a2e3c9d5037f16d69b373e55950a4041f349a0e43d2f126d832516ecda65" @@
      <<7, 6>> :> "805a4639a2916d439bc15700178a265889fd7a4706d44273ef5fa31bccd7d2e1" @@
      <<7, 7>> :> "9e82c42e50c50e3ab970203441c9b57a76bbd76cf1c16f9d73e33c1eae9b32c3" @@
      <<7, 8>> :> "b82952ca817a62a489b2db6fdb9b8e5ecefed815bc632063e9411e56c5c74653" @@
      <<7, 9>> :> "bc78c3edef29957db3b260ab0ec4db8408822d700b5d5e1504e67582a26ee360" @@
      <<7, 10>> :> "8610a4685f450a948ca0dcae7b8eb3639e6abd349f74fdad967e630b4e4a80ab" @@
      <<8, 1>> :> "37ed3bd0271d07e92b85993d2386ec271d6a734b69ca2b2f89b4a4c4679ec12f" @@
      <<8, 2>> :> "2951187b88f93da2940b612d4419538b567477c6e9eeb1eb7f439f5ac3274018" @@
      <<8, 3>> :> "82b1b4ebf8ff470c9c4098e50982293f53be005ef19467bbc37bec8b420a0e20" @@
      <<8, 4>> :> "9d8427dba7396c90b0884fad23aefe4083c04a674057069b3c5e97fa33084452" @@
      <<8, 5>> :> "1bbc15f91d5aaa203b268d153ebbde31271a4578442bd57a90e0ac6c25131a80" @@
      <<8, 6>> :> "a433c0d39e275b15c46dd4bb5e0afe16ad0c4f256f6c57fc5765a9ccde1dd91d" @@
      <<8, 7>> :> "a3922d919c9a4f06a493f43c56ffc6b977a90896ed4efb44ff0cef2e910a211b" @@
      <<8, 8>> :> "9d7f8a0126656a86514a7631df6e0bf84663d518af887986a6d14452c21a0f97" @@
      <<8, 9>> :> "97e8078d9763e9620978dedda69e97ac1f6192376cc8f6f8e6c7ec54b468c0ea" @@
      <<8, 10>> :> "08d5a35c5af84fb285d8eea9b99092cb9df5190290e28cb0a84edf6091cba1ae" @@
      <<9, 1>> :> "ffedbc413515c7dab0d70c1f9b4ba0f73d9846d8c6bf89f82549c1e3f6c58f18" @@
      <<9, 2>> :> "5ed26dcfa0085c58ea3df34cb682a2bdb696547f1ee8437ee4e1d38123e1b1e3" @@
      <<9, 3>> :> "e768ad8ba466b7fca5425f7506f4d05291e4b6f71393e08f3766733cfad23ab1" @@
      <<9, 4>> :> "1cf3cd0175f192a6cbe964fe052240dfc2c7538a585345ad624aad8d9f8c3f5e" @@
      <<9, 5>> :> "049ef54aba61ae8a1eca6b1a1ca8e04dcb08788f6db82a7bfe1d8ff7919f7cfe" @@
      <<9, 6>> :> "28d8aef188cfbee7b62dd13ab683a263c0e8ae59cc79263f3270e236fc8e5acc" @@
      <<9, 7>> :> "6147dc6b65096b83e01b19dd94e4d6eeef8c8665308b5494d6b0b54a5a7e075b" @@
      <<9, 8>> :> "513b9710faad56a82c3979aa0c9493713e68afc7dd8538e606f8668fbf5f9ca5" @@
      <<9, 9>> :> "05d52cc0f0b9b87a3628323676ad4cf4e7cfb15d2c9921337dfa464702593518" @@
      <<9, 10>> :> "1fca15dfc06c38862911e2c57417be86e18eef23154baeb1d3b39b7028d414d0" @@
      <<10, 1>> :> "e5de9d00d687766afab87be38086fa8f828a56f901265574cfa2e1fcfb678773" @@
      <<10, 2>> :> "ea3ed80b0cbdbf8b0764569126738ff34c9cb9f2bd7f6b52c017f5f6e809a247" @@
      <<10, 3>> :> "64d438c2f654d2db9cfd4ac1de04e422ce1249b25b0306837d47e96900291b05" @@
      <<10, 4>> :> "19d7bdca90fb892b57f4373a8e239f42b75f1cfe06b499792e9318787a9bb12b" @@
      <<10, 5>> :> "4e78b602772262e558a022c70281430916f042e280e34a91efd3465d16906fc7" @@
      <<10, 6>> :> "3a103d6d91c207121106f7c6869ab2cc8da0dfd80db4f4731d432f5066e0d5d9" @@
      <<10, 7>> :> "d2417583f45d3e509a51ec445d9ace4b4a79b0bd6c933e326b93e9a4ded2ecf0" @@
      <<10, 8>> :> "e5cac86310018b3409c7c5d39cf5dc0d433feb19221f2d3579ea93f6dfb95dd9" @@
      <<10, 9>> :> "b5884553f7dca39830ace9199a36eb4e32c4bc0db3f663ce87ec66beef3c8ed3" @@
      <<10, 10>> :> "cf9b8b56e02265899ec4673362121917d7ab455298f30f850142b8c33d2153a2" )

\* the data that BuildData gives for each of these instruction lists
DataOfKey == [key \in DOMAIN Sha256OfBatch |-> BuildData(BatchOf(key))]

Tabulated(data) == \E key \in DOMAIN DataOfKey : DataOfKey[key] = data

KeyOf(data) == CHOOSE key \in DOMAIN DataOfKey : DataOfKey[key] = data

\* hashlib.sha256(data).digest()
Sha256(data) == FromHex(Sha256OfBatch[KeyOf(data)])

\* hashlib.blake2b(data, digest_size=32).digest()
Blake2b256(data) == FromHex(Blake2bOfBatch[KeyOf(data)])

\* `signature = hashlib.sha256(bytes(data)).digest(); data.extend(signature)`
Signed(data) == data \o Sha256(data)

\* LCBBatchBuilder.build
build(instrs) == Signed(BuildData(instrs))

\* the builder holds at most MaxInstructions instructions
MaxInstructions == 2

NoCall == [kind |-> "none", val |-> 0]

Returned(idx) == [kind |-> "index", val |-> idx]

Raised(e) == [kind |-> e, val |-> 0]

\* _add_instruction: append, return the index of the new instruction
AddInstruction(ins) ==
    /\ instructions' = Append(instructions, ins)
    /\ builderRes' = Returned(Len(instructions))

RaiseValueError ==
    /\ builderRes' = Raised("ValueError")
    /\ UNCHANGED instructions

Gemm ==
    /\ Len(instructions) < MaxInstructions
    /\ \E a \in {T12, T21}, transpose_a \in BOOLEAN :
          IF GemmMismatch(a, T21, transpose_a, FALSE) THEN RaiseValueError
          ELSE AddInstruction(gemm(a, T21, transpose_a, FALSE))
    /\ UNCHANGED <<batch, lebVars, casVars, codecVars, clientVars, simpleCasVars>>

Layernorm ==
    /\ Len(instructions) < MaxInstructions
    /\ \E inp \in {T12, V2} :
          IF Len(inp.shape) < 2 THEN RaiseValueError
          ELSE AddInstruction(layernorm(inp, V2, V2, Eps))
    /\ UNCHANGED <<batch, lebVars, casVars, codecVars, clientVars, simpleCasVars>>

Gelu ==
    /\ Len(instructions) < MaxInstructions
    /\ AddInstruction(gelu(T12))
    /\ UNCHANGED <<batch, lebVars, casVars, codecVars, clientVars, simpleCasVars>>

Softmax ==
    /\ Len(instructions) < MaxInstructions
    /\ \E dim \in {-1, 0} : AddInstruction(softmax(T12, dim))
    /\ UNCHANGED <<batch, lebVars, casVars, codecVars, clientVars, simpleCasVars>>

CrossEntropy ==
    /\ Len(instructions) < MaxInstructions
    /\ AddInstruction(cross_entropy(T12, Targets, 0))
    /\ UNCHANGED <<batch, lebVars, casVars, codecVars, clientVars, simpleCasVars>>

TransformerForward ==
    /\ Len(instructions) < MaxInstructions
    /\ AddInstruction(transformer_forward(T12, "{}"))
    /\ UNCHANGED <<batch, lebVars, casVars, codecVars, clientVars, simpleCasVars>>

\* build() does not change the builder; it can be called again
\* the result indexes a caller passes to chain
ChainIndexes == {0, 1}

\* a caller adds an instruction whose input is chain(k)
AddChained ==
    /\ Len(instructions) < MaxInstructions
    /\ \E k \in ChainIndexes : AddInstruction(chained(k))
    /\ UNCHANGED <<batch, lebVars, casVars, codecVars, clientVars, simpleCasVars>>

\* gelu(chain(k)): input.astype on the tuple raises AttributeError
GeluOfChain ==
    /\ builderRes' = Raised("AttributeError")
    /\ UNCHANGED instructions
    /\ UNCHANGED <<batch, lebVars, casVars, codecVars, clientVars, simpleCasVars>>

Build ==
    /\ Tabulated(BuildData(instructions))
    /\ batch' = [set |-> TRUE, bytes |-> build(instructions)]
    /\ UNCHANGED <<instructions, builderRes, lebVars, casVars, codecVars, clientVars, simpleCasVars>>

(***************************************************************************)
(* LCBClient._parse_response and _parse_result.  A ContractResult is its   *)
(* result_type, its value and its shape.  The value of a float result is   *)
(* written by the four bytes of its binary32 form, the value of a tensor   *)
(* by the bytes of its elements, and a decoded message by its UTF-8 bytes; *)
(* the bytes of the model above 127 are the byte 0xff, which is not valid  *)
(* UTF-8.                                                                  *)
(***************************************************************************)
\* an int used as a length or a count: above CapValue it is beyond the end
\* of every byte string of the model, and CapValue stands for it
CapValue == 2097152

RECURSIVE DigitsValue(_)
DigitsValue(d) == IF Len(d) = 0 THEN 0 ELSE Head(d) + 128 * DigitsValue(Tail(d))

Cap(value) ==
    IF Len(Norm(value).d) > 3 THEN CapValue ELSE DigitsValue(Norm(value).d)

\* a * b, no larger than CapValue
SatMul(a, b) ==
    IF a = 0 \/ b = 0 THEN 0
    ELSE IF a > CapValue \div b THEN CapValue ELSE a * b

RECURSIVE ShapeSize(_)
ShapeSize(shape) ==
    IF Len(shape) = 0 THEN 1 ELSE SatMul(Cap(Head(shape)), ShapeSize(Tail(shape)))

\* data[a:b] for 0 <= a
BytesSlice(data, a, b) ==
    IF a >= Len(data) THEN <<>>
    ELSE SubSeq(data, a + 1, IF b < Len(data) THEN b ELSE Len(data))

NoPayload == [bool |-> FALSE, int |-> Big(FALSE, <<>>), bytes |-> <<>>]

ContractResult(result_type, value, shape) ==
    [result_type |-> result_type, value |-> value, shape |-> shape]

\* a returned (result, offset) pair, and a raised exception
ROk(result, offset) == [ok |-> TRUE, val |-> result, off |-> offset, err |-> ""]

RErr(e) == [ok |-> FALSE, val |-> ContractResult("", NoPayload, <<>>), off |-> 0, err |-> e]

\* bytes.decode('utf-8') succeeds
ValidUtf8(bytes) == \A i \in DOMAIN bytes : bytes[i] < 128

BoolResult(data, offset) ==
    IF offset >= Len(data) THEN RErr("IndexError")
    ELSE ROk(ContractResult("bool", [NoPayload EXCEPT !.bool = data[offset + 1] # 0], <<>>),
             offset + 1)

IntResult(decoded) ==
    IF ~decoded.ok THEN RErr(decoded.err)
    ELSE ROk(ContractResult("int", [NoPayload EXCEPT !.int = decoded.val], <<>>),
             decoded.off)

\* struct.unpack("<f", ...) needs exactly four bytes
FloatResult(buf, offset) ==
    IF Len(buf) # 4 THEN RErr("struct.error")
    ELSE ROk(ContractResult("float", [NoPayload EXCEPT !.bytes = buf], <<>>), offset + 4)

\* np.frombuffer needs a whole number of elements, reshape needs as many
\* elements as the shape holds (`if shape:` skips it for an empty shape)
TensorOf(shape, buf, offset) ==
    IF Len(buf) % 4 # 0 THEN RErr("ValueError")
    ELSE IF Len(shape) > 0 /\ ShapeSize(shape) # Len(buf) \div 4 THEN RErr("ValueError")
    ELSE ROk(ContractResult("tensor", [NoPayload EXCEPT !.bytes = buf], shape), offset)

TensorData(data, shape, num_elements) ==
    IF ~num_elements.ok THEN RErr(num_elements.err)
    ELSE TensorOf(shape,
                  BytesSlice(data, num_elements.off,
                             num_elements.off + SatMul(Cap(num_elements.val), 4)),
                  num_elements.off + SatMul(Cap(num_elements.val), 4))

RECURSIVE TensorShape(_, _, _, _)
RECURSIVE ShapeDim(_, _, _, _)
\* `for _ in range(num_dims)`, then the element count and the data
TensorShape(data, offset, remaining, shape) ==
    IF remaining = 0 THEN TensorData(data, shape, decode_leb128_u32(data, offset))
    ELSE ShapeDim(data, remaining, shape, decode_leb128_u32(data, offset))

ShapeDim(data, remaining, shape, dim) ==
    IF ~dim.ok THEN RErr(dim.err)
    ELSE TensorShape(data, dim.off, remaining - 1, Append(shape, dim.val))

TensorResult(data, num_dims) ==
    IF ~num_dims.ok THEN RErr(num_dims.err)
    ELSE TensorShape(data, num_dims.off, Cap(num_dims.val), <<>>)

HandleResult(data, offset) ==
    ROk(ContractResult("handle",
                       [NoPayload EXCEPT !.bytes = BytesSlice(data, offset, offset + 32)],
                       <<>>),
        offset + 32)

\* msg = data[offset:offset + msg_len].decode('utf-8'); offset += msg_len
DecodedMsg(buf, offset) ==
    IF ~ValidUtf8(buf) THEN RErr("UnicodeDecodeError")
    ELSE ROk(ContractResult("error", [NoPayload EXCEPT !.bytes = buf], <<>>), offset)

ErrorResult(data, msg_len) ==
    IF ~msg_len.ok THEN RErr(msg_len.err)
    ELSE DecodedMsg(BytesSlice(data, msg_len.off, msg_len.off + Cap(msg_len.val)),
                    msg_len.off + Cap(msg_len.val))

\* the dispatch of _parse_result on result_type; offset is past the type byte
ResultOfType(result_type, data, offset) ==
    IF result_type = 0 THEN ROk(ContractResult("null", NoPayload, <<>>), offset)
    ELSE IF result_type = 1 THEN BoolResult(data, offset)
    ELSE IF result_type = 2 THEN IntResult(decode_leb128_i64(data, offset))
    ELSE IF result_type = 3 THEN FloatResult(BytesSlice(data, offset, offset + 4), offset)
    ELSE IF result_type = 4 THEN TensorResult(data, decode_leb128_u32(data, offset))
    ELSE IF result_type = 5 THEN HandleResult(data, offset)
    ELSE IF result_type = 6 THEN ErrorResult(data, decode_leb128_u32(data, offset))
    ELSE RErr("ValueError")

\* LCBClient._parse_result
parse_result(data, offset) ==
    IF offset >= Len(data) THEN RErr("IndexError")
    ELSE ResultOfType(data[offset + 1], data, offset + 1)

\* the outcome of _parse_response: the list of results, or an exception
\* (with the message of the RuntimeError)
Results(results) == [ok |-> TRUE, results |-> results, err |-> "", msg |-> <<>>]

Exception(e, msg) == [ok |-> FALSE, results |-> <<>>, err |-> e, msg |-> msg]

RECURSIVE ResultsLoop(_, _, _)
RECURSIVE ResultsNext(_, _, _, _)
\* `for _ in range(num_results)`
ResultsLoop(data, remaining, results) ==
    IF remaining = 0 THEN Results(results.list)
    ELSE ResultsNext(data, remaining, results.list, parse_result(data, results.off))

ResultsNext(data, remaining, list, parsed) ==
    IF ~parsed.ok THEN Exception(parsed.err, <<>>)
    ELSE ResultsLoop(data, remaining - 1,
                     [list |-> Append(list, parsed.val), off |-> parsed.off])

SuccessResponse(data, num_results) ==
    IF ~num_results.ok THEN Exception(num_results.err, <<>>)
    ELSE ResultsLoop(data, Cap(num_results.val), [list |-> <<>>, off |-> num_results.off])

\* raise RuntimeError(f"LC-B execution error: {msg}")
ErrorMessage(buf) ==
    IF ~ValidUtf8(buf) THEN Exception("UnicodeDecodeError", <<>>)
    ELSE Exception("RuntimeError", buf)

ErrorResponse(data, msg_len) ==
    IF ~msg_len.ok THEN Exception(msg_len.err, <<>>)
    ELSE ErrorMessage(BytesSlice(data, msg_len.off, msg_len.off + Cap(msg_len.val)))

\* LCBClient._parse_response
parse_response(data) ==
    IF Len(data) = 0 THEN Exception("IndexError", <<>>)
    ELSE IF data[1] = 1 THEN ErrorResponse(data, decode_leb128_u32(data, 1))
    ELSE SuccessResponse(data, decode_leb128_u32(data, 1))

(***************************************************************************)
(* LCBClient.execute, one step per socket call.  The peer is the stream of *)
(* bytes it writes before it closes its end (peerData) and the number of   *)
(* them the client has taken (peerPos); sock.recv(k) returns between one   *)
(* and k of the bytes that remain, and b"" once the stream is exhausted.   *)
(* connect and sendall either succeed or raise OSError.  wire is the       *)
(* history of the calls made on the socket.                                *)
(***************************************************************************)
WireCall(op, n, bytes, ok) == [op |-> op, n |-> n, bytes |-> bytes, ok |-> ok]

NoRecv == [n |-> 0, data |-> <<>>]

NotExecuted == Exception("not called", <<>>)

\* struct.unpack("<I", b)[0]
UnpackU32(b) == b[1] + 256 * b[2] + 65536 * b[3] + 16777216 * b[4]

\* mutant: execute ends without running the finally clause
FinallySkipped == "done"

\* the finally clause of execute: every exit goes through sock.close()
Finally == "close"

\* an exception raised inside the try block
Raises(e) ==
    /\ execRes' = Exception(e, <<>>)
    /\ execPc' = Finally

\* mutant: every recv asks for n bytes
WantAll(n, data) == n

\* the argument of sock.recv: n - len(data)
Want(n, data) == n - Len(data)

Smaller(a, b) == IF a < b THEN a ELSE b

\* sock = socket.socket(AF_UNIX, SOCK_STREAM)
Execute ==
    /\ execPc = "idle"
    /\ sock' = "open"
    /\ execPc' = "connect"
    /\ UNCHANGED <<execBatch, wire, peerData, peerPos, recv, response, execRes,
                   lebVars, builderVars, casVars, codecVars, simpleCasVars>>

\* sock.connect(self.socket_path)
Connect ==
    /\ execPc = "connect"
    /\ \E ok \in BOOLEAN :
          /\ wire' = Append(wire, WireCall("connect", 0, <<>>, ok))
          /\ IF ok THEN execPc' = "send_len" /\ UNCHANGED execRes
             ELSE Raises("OSError")
    /\ UNCHANGED <<execBatch, sock, peerData, peerPos, recv, response,
                   lebVars, builderVars, casVars, codecVars, simpleCasVars>>

\* sock.sendall(struct.pack("<I", len(batch)))
SendLen ==
    /\ execPc = "send_len"
    /\ \E ok \in BOOLEAN :
          /\ wire' = Append(wire, WireCall("sendall", 0, PackU32(Len(execBatch)), ok))
          /\ IF ok THEN execPc' = "send_batch" /\ UNCHANGED execRes
             ELSE Raises("OSError")
    /\ UNCHANGED <<execBatch, sock, peerData, peerPos, recv, response,
                   lebVars, builderVars, casVars, codecVars, simpleCasVars>>

\* sock.sendall(batch), then the call of _recv_exact(sock, 4)
SendBatch ==
    /\ execPc = "send_batch"
    /\ \E ok \in BOOLEAN :
          /\ wire' = Append(wire, WireCall("sendall", 0, execBatch, ok))
          /\ IF ok
             THEN execPc' = "recv_len" /\ recv' = [n |-> 4, data |-> <<>>]
                  /\ UNCHANGED execRes
             ELSE Raises("OSError") /\ UNCHANGED recv
    /\ UNCHANGED <<execBatch, sock, peerData, peerPos, response,
                   lebVars, builderVars, casVars, codecVars, simpleCasVars>>

\* _recv_exact(sock, 4) has returned b: response_len is unpacked and
\* _recv_exact(sock, response_len) is called; it returns at once for 0
GotLength(b) ==
    /\ IF UnpackU32(b) = 0
       THEN /\ wire' = Append(Append(wire, WireCall("_recv_exact", 4, b, TRUE)),
                              WireCall("_recv_exact", 0, <<>>, TRUE))
            /\ response' = [set |-> TRUE, bytes |-> <<>>]
            /\ recv' = NoRecv
            /\ execPc' = "parse"
       ELSE /\ wire' = Append(wire, WireCall("_recv_exact", 4, b, TRUE))
            /\ recv' = [n |-> UnpackU32(b), data |-> <<>>]
            /\ execPc' = "recv_response"
            /\ UNCHANGED response
    /\ UNCHANGED execRes

\* _recv_exact(sock, response_len) has returned b
GotResponse(b) ==
    /\ wire' = Append(wire, WireCall("_recv_exact", recv.n, b, TRUE))
    /\ response' = [set |-> TRUE, bytes |-> b]
    /\ recv' = NoRecv
    /\ execPc' = "parse"
    /\ UNCHANGED execRes

\* data.extend(chunk) and the loop test `len(data) < n`
Extended(data) ==
    IF Len(data) < recv.n
    THEN recv' = [recv EXCEPT !.data = data]
         /\ UNCHANGED <<execPc, wire, response, execRes>>
    ELSE IF execPc = "recv_len" THEN GotLength(data)
    ELSE GotResponse(data)

\* one turn of the loop of _recv_exact: chunk = sock.recv(n - len(data))
Recv ==
    /\ execPc \in {"recv_len", "recv_response"}
    /\ IF peerPos < Len(peerData)
       THEN \E k \in 1 .. Smaller(Want(recv.n, recv.data), Len(peerData) - peerPos) :
               /\ peerPos' = peerPos + k
               /\ Extended(recv.data \o SubSeq(peerData, peerPos + 1, peerPos + k))
       ELSE /\ wire' = Append(wire, WireCall("_recv_exact", recv.n, <<>>, FALSE))
            /\ Raises("ConnectionError")
            /\ UNCHANGED <<peerPos, recv, response>>
    /\ UNCHANGED <<execBatch, sock, peerData, lebVars, builderVars, casVars, codecVars, simpleCasVars>>

\* return self._parse_response(response)
ParseResponse ==
    /\ execPc = "parse"
    /\ execRes' = parse_response(response.bytes)
    /\ execPc' = Finally
    /\ UNCHANGED <<execBatch, sock, wire, peerData, peerPos, recv, response,
                   lebVars, builderVars, casVars, codecVars, simpleCasVars>>

\* finally: sock.close()
Close ==
    /\ execPc = "close"
    /\ sock' = "closed"
    /\ wire' = Append(wire, WireCall("close", 0, <<>>, TRUE))
    /\ execPc' = "done"
    /\ UNCHANGED <<execBatch, peerData, peerPos, recv, response, execRes,
                   lebVars, builderVars, casVars, codecVars, simpleCasVars>>

(***************************************************************************)
(* The batches handed to execute and the streams of the peer: a framed     *)
(* response of every result type and status, frames cut short, and a frame *)
(* followed by more bytes.                                                 *)
(***************************************************************************)
Handle32 == [i \in 1 .. 32 |-> i - 1]

Responses ==
    { <<0, 0>>, <<0, 2, 0, 1, 1>>, <<0, 1, 2, 127>>, <<0, 1, 3, 0, 0, 128, 63>>,
      <<0, 1, 4, 1, 2, 2, 0, 0, 128, 63, 0, 0, 0, 64>>, <<0, 1, 5>> \o Handle32,
      <<0, 1, 6, 2, 104, 105>>, <<0, 3, 0, 2, 1, 6, 1, 97>>,
      <<1, 2, 104, 105>>, <<1, 0>>, <<1, 1, 255>>,
      <<2, 0>>, <<2, 1, 0>>, <<255, 0>>,
      <<0, 1, 9>>, <<0, 2, 0>>, <<0, 1, 3, 0, 0>>, <<>> }

Frame(payload) == PackU32(Len(payload)) \o payload

PeerStreams ==
    { Frame(p) : p \in Responses }
      \cup { <<>>, <<2, 0>>, <<5, 0, 0, 0, 0, 2>>, Frame(<<0, 0>>) \o <<9, 9>> }

ExecBatches == { <<>>, <<1, 2, 3>>, build(<<>>) }

(***************************************************************************)
(* Inputs of the LEB128 functions: ints around the encoding lengths and    *)
(* the two ends of the 64-bit range, and byte strings for the decoder.     *)
(***************************************************************************)
Rep(n, x) == [i \in 1..n |-> x]

\* -2^63 and 2^63 - 1
I64Min == Big(TRUE, Rep(9, 0))

I64Max == Big(FALSE, Rep(9, 127))

LebValues ==
    << BigOf(0), BigOf(1), BigOf(-1), BigOf(63), BigOf(64), BigOf(-64),
       BigOf(-65), BigOf(127), BigOf(128), BigOf(-128), BigOf(-129),
       BigOf(906), BigOf(-8192), BigOf(8191), BigOf(2147483647),
       BigOf(-2147483647),
       Big(FALSE, Rep(8, 127) \o <<63>>),    \* 2^62 - 1
       Big(FALSE, Rep(8, 0) \o <<64>>),      \* 2^62
       Big(TRUE, Rep(8, 0) \o <<64>>),       \* -2^62
       Big(TRUE, Rep(8, 127) \o <<63>>),     \* -2^62 - 1
       I64Max,
       Big(TRUE, <<1>> \o Rep(8, 0)),        \* -2^63 + 1
       I64Min >>

U32Datas ==
    << <<0>>, <<127>>, <<128, 1>>, <<138, 7>>, <<128, 0>>,
       <<255, 255, 255, 255, 15>>,           \* 2^32 - 1
       <<128, 128, 128, 128, 16>>,           \* 2^32
       <<255, 255, 255, 255, 31>>,           \* 2^33 - 1
       <<128, 128, 128, 128, 128, 1>>,       \* 2^35, six bytes
       <<128, 128, 128, 128, 128, 128, 0>>,  \* 0, seven bytes
       <<128>>, <<>> >>

NoBytes == [set |-> FALSE, bytes |-> <<>>]

LebNotCalled == LebErr("not called")

EncodeI64 ==
    /\ ~lebBytes.set
    /\ lebBytes' = [set |-> TRUE, bytes |-> encode_leb128_i64(lebValue)]
    /\ UNCHANGED <<lebValue, lebOut, u32Data, u32Out, casVars, codecVars, builderVars, clientVars, simpleCasVars>>

DecodeI64 ==
    /\ lebBytes.set /\ ~Called(lebOut)
    /\ lebOut' = decode_leb128_i64(lebBytes.bytes, 0)
    /\ UNCHANGED <<lebValue, lebBytes, u32Data, u32Out, casVars, codecVars, builderVars, clientVars, simpleCasVars>>

DecodeU32 ==
    /\ ~Called(u32Out)
    /\ u32Out' = decode_leb128_u32(u32Data, 0)
    /\ UNCHANGED <<lebValue, lebBytes, lebOut, u32Data, casVars, codecVars, builderVars, clientVars, simpleCasVars>>

(***************************************************************************)
(*   PART IV  -  The in-process CAS (src/runtime/hlx_runtime/              *)
(*   hlx_ls_runtime.py; hlxl_ls_runtime.py holds the same class)           *)
(***************************************************************************)
\* the store holds at most MaxStore handles in a behaviour of the model
MaxStore == 3

\* repr of a str without quote, backslash or control character
ReprStr(s) == "'" \o s \o "'"

\* repr of bytes outside the printable range: b'\x01\xff'
RECURSIVE ReprByteEscapes(_)
ReprByteEscapes(b) ==
    IF Len(b) = 0 THEN ""
    ELSE "\\x" \o HexChar(Head(b) \div 16) \o HexChar(Head(b) % 16)
         \o ReprByteEscapes(Tail(b))

\* repr(value): a list in element order, a dict in insertion order
RECURSIVE PyRepr(_)
PyRepr(x) ==
    CASE x.t = "none" -> "None"
      [] x.t = "bool" -> IF x.v THEN "True" ELSE "False"
      [] x.t = "int" -> IntToStr(x.v)
      [] x.t = "float" -> FloatRepr(x.v)
      [] x.t = "str" -> ReprStr(x.v)
      [] x.t = "bytes" -> "b'" \o ReprByteEscapes(x.v) \o "'"
      [] x.t = "list" ->
           "[" \o Join([i \in DOMAIN x.v |-> PyRepr(x.v[i])], ", ") \o "]"
      [] x.t = "dict" ->
           "{" \o Join([i \in DOMAIN x.v |->
                           ReprStr(x.v[i][1]) \o ": " \o PyRepr(x.v[i][2])], ", ")
               \o "}"

\* hashlib.sha256(serialized).hexdigest()[:16] of the texts the model hashes
Sha256Hex16(text) ==
    CASE
         text = "None" ->
           "dc937b59892604f5"
      [] text = "True" ->
           "3cbc87c7681f34db"
      [] text = "1" ->
           "6b86b273ff34fce1"
      [] text = "42" ->
           "73475cb40a568e8d"
      [] text = "1.0" ->
           "d0ff5974b6aa52cf"
      [] text = "nan" ->
           "9b2d5b4678781e53"
      [] text = "'hello'" ->
           "d543699194a33434"
      [] text = "'1'" ->
           "9a7622b24ae73586"
      [] text = "b'\\x01\\xff'" ->
           "09b05a54e2377706"
      [] text = "[1, 2, 3]" ->
           "a36b1f2c3f84522d"
      [] text = "[]" ->
           "4f53cda18c2baa0c"
      [] text = "{'a': 1, 'b': 2}" ->
           "3dffaea891e5dbad"
      [] text = "{'b': 2, 'a': 1}" ->
           "46e391c4281c162d"
      [] text = "{'a': [1, {'k': None}]}" ->
           "9868ab60e76b6623"
      [] text = "{}" ->
           "44136fa355b3678a"

\* SimpleCAS.put: the handle the value is stored under
HandleOfValue(value) == "&h_" \o Sha256Hex16(PyRepr(value))

\* a store that kept the serialized text in place of the value
StoredSerialized(value) == PyStr(PyRepr(value))

\* what put stores under the handle: the value itself
Stored(value) == value

\* SimpleCAS.put: self.store[handle] = value
put(st, value) == DictSet(st, HandleOfValue(value), Stored(value))

\* SimpleCAS.has
has(st, handle) == DictHas(st, handle)

\* SimpleCAS.get: the stored value, HLXError E_HANDLE_UNRESOLVED when the
\* handle is not in the store
get(st, handle) ==
    IF has(st, handle) THEN [ok |-> TRUE, value |-> DictVal(st, handle)]
    ELSE [ok |-> FALSE, value |-> PyNone]

NoCasCall == [op |-> "none", handle |-> "", ok |-> TRUE, value |-> PyNone]

\* the values a caller collapses
CasValues ==
    << PyNone,
       PyInt(1),
       PyFloat(FALSE, "1", 0),
       PyNan,
       PyStr("1"),
       PyList(<<PyInt(1), PyInt(2), PyInt(3)>>),
       PyDict(<<<<"a", PyInt(1)>>, <<"b", PyInt(2)>>>>),
       PyDict(<<<<"b", PyInt(2)>>, <<"a", PyInt(1)>>>>) >>

UnknownCasHandle == "&h_0000000000000000"

\* the handles a caller resolves
CasHandles ==
    {HandleOfValue(CasValues[i]) : i \in DOMAIN CasValues} \cup {UnknownCasHandle}

\* SimpleCAS.__init__
InitSimpleCAS ==
    /\ store = <<>>
    /\ casCall = NoCasCall

\* collapse(value, cas): cas.put(value)
Collapse(value) ==
    /\ has(store, HandleOfValue(value)) \/ Len(store) < MaxStore
    /\ store' = put(store, value)
    /\ casCall' = [op |-> "collapse", handle |-> HandleOfValue(value), ok |-> TRUE,
                   value |-> value]
    /\ UNCHANGED <<casVars, codecVars, lcbVars>>

\* resolve(handle, cas): cas.get(handle)
Resolve(handle) ==
    /\ casCall' = [op |-> "resolve", handle |-> handle,
                   ok |-> get(store, handle).ok, value |-> get(store, handle).value]
    /\ UNCHANGED <<store, casVars, codecVars, lcbVars>>

\* the texts a caller passes to decode_lct: well formed and malformed
LctTexts ==
    {"",
     " ",
     " 42 ",
     "NULL_x",
     "NULLx",
     "TRUE,",
     "{C:1",
     "{C:1,0=5",
     "{C:}",
     "{C:1,}",
     "{C:1 0=5 1=6}",
     "{C:1,0=5,0=6}",
     "{C:1,0 = 5 }",
     "{",
     "{a:1 b:2}",
     "{a:1,}",
     "{a:1,a:2,b:3}",
     "{ a : 1 }",
     "[1,2",
     "[1 2]",
     "[ ]",
     "[1,]",
     "[ 1 , 2 ]",
     "#",
     "#abc",
     "#ABCD",
     "#zz",
     "-",
     "1e",
     "1e5",
     "-.5",
     "1.",
     "1.5.2",
     "\"abc",
     "\"a\\",
     "\"a\\nb\"",
     "\"a\\qb\"",
     "foo",
     "_x",
     "@",
     "@1a",
     "$",
     "1 2",
     "FALSE",
     "TRUEx",
     "{C:1.5}",
     "{C:1,0}",
     "{C:1,a=1}",
     "{C:1,0=}",
     "{ }",
     "{,}",
     "{a}",
     "{a:}",
     "[",
     "[[",
     "\"x\" y",
     "@a@b",
     "12abc",
     "{C:1,0=5}}",
     "1E5",
     "0x10",
     "-0",
     "007",
     "{a:1",
     "{a:1,b:2",
     "{a:{b:1}",
     "{C:1,0=5,1=6}",
     "{a:1,b:2}",
     "{C:1,0=[1,2",
     "[foo]",
     "{a:foo}",
     "{C:1,0=foo}",
     "{a:1 , b:2}",
     "{C:1,0=5 1=6",
     "{C:1,0={C:2,0=1}",
     "{C:1,0=5}",
     "[1,2]",
     "@foo",
     "\"abc\"",
     "1.5",
     "NULL",
     "TRUE",
     "{a:1}",
     "{C:7}",
     "{}",
     "[]",
     "#00ff",
     " {a:1 b:2",
     "{C:1 }"}

(***************************************************************************)
(* Specifications.  Spec: one thread (the owner of the connection) issues  *)
(* any sequence of store calls.  SpecConc: the owner and the worker        *)
(* threads call concurrently, interleaved at the steps above.  SpecCodec:  *)
(* a caller passes one value of CodecInputs through the codec functions.   *)
(* SpecLeb: a caller passes one int and one byte string through the        *)
(* LEB128 functions.  SpecBatch: a caller adds instructions to one         *)
(* LCBBatchBuilder and builds batches from it.  SpecClient: one call of    *)
(* LCBClient.execute with a batch of ExecBatches against a peer that       *)
(* writes a stream of PeerStreams.  SpecCas: a caller collapses values of   *)
(* CasValues into one SimpleCAS and resolves handles of CasHandles.        *)
(* SpecDecode: a caller passes one text of LctTexts to decode_lct.         *)
(***************************************************************************)
vars == <<threads, pc, loc, res, fs, index, returned,
          input, lctText, lctOut, bijection, lcrText, lcrOut,
          lebValue, lebBytes, lebOut, u32Data, u32Out,
          instructions, builderRes, batch,
          execPc, execBatch, sock, wire, peerData, peerPos, recv, response, execRes,
          store, casCall>>

InitStore ==
    /\ pc = [t \in AllThreads |-> "idle"]
    /\ loc = [t \in AllThreads |-> NoLoc]
    /\ res = NoRes
    /\ fs = [p \in Paths |-> Absent]
    /\ index = <<>>
    /\ returned = {}

\* no codec call has been made
InitCalls ==
    /\ lctText = NoText
    /\ lctOut = NotCalled
    /\ bijection = "not called"
    /\ lcrText = NoChars
    /\ lcrOut = NotCalled

\* no LEB128 call has been made
InitLebCalls ==
    /\ lebBytes = NoBytes
    /\ lebOut = LebNotCalled
    /\ u32Out = LebNotCalled

\* LCBBatchBuilder.__init__
InitBuilder ==
    /\ instructions = <<>>
    /\ builderRes = NoCall
    /\ batch = NoBytes

\* execute has not been called
InitExecute ==
    /\ execPc = "idle"
    /\ sock = "none"
    /\ wire = <<>>
    /\ peerPos = 0
    /\ recv = NoRecv
    /\ response = NoBytes
    /\ execRes = NotExecuted

\* the LC-B client is not in use
InitLcb ==
    /\ lebValue = BigOf(0)
    /\ u32Data = <<0>>
    /\ InitLebCalls
    /\ InitBuilder
    /\ execBatch = <<>>
    /\ peerData = <<>>
    /\ InitExecute

Init ==
    /\ threads = {ConnOwner} /\ InitStore /\ input = PyNone /\ InitCalls /\ InitLcb
    /\ InitSimpleCAS

InitConc ==
    /\ threads = AllThreads /\ InitStore /\ input = PyNone /\ InitCalls /\ InitLcb
    /\ InitSimpleCAS

InitCodec ==
    /\ threads = {}
    /\ InitStore
    /\ \E i \in DOMAIN CodecInputs : input = CodecInputs[i]
    /\ InitCalls
    /\ InitLcb
    /\ InitSimpleCAS

InitLeb ==
    /\ threads = {}
    /\ InitStore
    /\ input = PyNone
    /\ InitCalls
    /\ \E i \in DOMAIN LebValues : lebValue = LebValues[i]
    /\ \E i \in DOMAIN U32Datas : u32Data = U32Datas[i]
    /\ InitLebCalls
    /\ InitBuilder
    /\ execBatch = <<>>
    /\ peerData = <<>>
    /\ InitExecute
    /\ InitSimpleCAS

InitClient ==
    /\ threads = {}
    /\ InitStore
    /\ input = PyNone
    /\ InitCalls
    /\ lebValue = BigOf(0)
    /\ u32Data = <<0>>
    /\ InitLebCalls
    /\ InitBuilder
    /\ execBatch \in ExecBatches
    /\ peerData \in PeerStreams
    /\ InitExecute
    /\ InitSimpleCAS

\* a caller holds one text of LctTexts and has not called decode_lct yet
InitDecode ==
    /\ threads = {}
    /\ InitStore
    /\ input = PyNone
    /\ \E t \in LctTexts : lctText = [set |-> TRUE, text |-> t]
    /\ lctOut = NotCalled
    /\ bijection = "not called"
    /\ lcrText = NoChars
    /\ lcrOut = NotCalled
    /\ InitLcb
    /\ InitSimpleCAS

Next ==
    \/ \E t \in AllThreads : AddShaderBegin(t)
    \/ \E t \in AllThreads : AddShaderCheck(t)
    \/ \E t \in AllThreads : AddShaderOpen(t)
    \/ \E t \in AllThreads : AddShaderWrite(t)
    \/ \E t \in AllThreads : AddShaderIndex(t)
    \/ \E t \in AllThreads : Get(t)
    \/ \E t \in AllThreads : Exists(t)
    \/ \E t \in AllThreads : Query(t)
    \/ \E t \in AllThreads : ListAll(t)
    \/ \E t \in AllThreads : Stats(t)

\* the calls that do not need the connection: every thread can complete them
NextConc ==
    \/ \E t \in AllThreads : AddShaderBegin(t)
    \/ \E t \in AllThreads : AddShaderCheck(t)
    \/ \E t \in AllThreads : AddShaderOpen(t)
    \/ \E t \in AllThreads : AddShaderWrite(t)
    \/ \E t \in AllThreads : AddShaderIndex(t)
    \/ \E t \in AllThreads : Get(t)
    \/ \E t \in AllThreads : Exists(t)

NextCodec ==
    \/ EncodeLct
    \/ DecodeLct
    \/ VerifyBijection
    \/ EncodeLcr
    \/ DecodeLcr

NextLeb ==
    \/ EncodeI64
    \/ DecodeI64
    \/ DecodeU32

NextBatch ==
    \/ Gemm
    \/ Layernorm
    \/ Gelu
    \/ Softmax
    \/ CrossEntropy
    \/ TransformerForward
    \/ AddChained
    \/ GeluOfChain
    \/ Build

NextClient ==
    \/ Execute
    \/ Connect
    \/ SendLen
    \/ SendBatch
    \/ Recv
    \/ ParseResponse
    \/ Close

Spec == Init /\ [][Next]_vars

SpecConc == InitConc /\ [][NextConc]_vars

SpecCodec == InitCodec /\ [][NextCodec]_vars

SpecLeb == InitLeb /\ [][NextLeb]_vars

SpecBatch == Init /\ [][NextBatch]_vars

SpecClient == InitClient /\ [][NextClient]_vars

NextCas ==
    \/ \E i \in DOMAIN CasValues : Collapse(CasValues[i])
    \/ \E h \in CasHandles : Resolve(h)

SpecCas == Init /\ [][NextCas]_vars

NextDecode == DecodeLct

SpecDecode == InitDecode /\ [][NextDecode]_vars

(***************************************************************************)
(*                    Claims about the shader database                     *)
(***************************************************************************)
StoredHandles == {h \in KnownHandles : PathExists(fs, h)}

IndexHandles == {index[i].handle : i \in DOMAIN index}

PayloadOf(h) == CHOOSE b \in ValidPayloads : FromSpirv(b) = h

\* thread t is inside add_shader for bytes that a call has returned before
ReAdding(t) == pc[t] # "idle" /\ \E r \in returned : r.bytes = loc[t].bytes

\* C1 (INV-001, total fidelity): in every state reached by a sequence of
\* add_shader / get / exists / query / list_all / stats calls, get(h) returns
\* exactly the bytes b for every (b, h) a successful add_shader has returned,
\* and every get that was called on such a handle returned b.
C1_TotalFidelity ==
    /\ \A r \in returned : GetOf(fs, r.handle) = Ok("get", r.handle, r.bytes)
    /\ (res.op = "get" /\ \E r \in returned : r.handle = res.arg)
          => (res.kind = "ok" /\ \A r \in returned : r.handle = res.arg => res.val = r.bytes)

C1_Witness ==
    /\ Cardinality(returned) = 2
    /\ res.op = "get" /\ res.kind = "ok" /\ res.val = SpirvB

\* C2 (INV-002 / P7, handle idempotence): every add_shader of a valid payload
\* b completes with a handle, whatever the metadata and the store state, and
\* that handle equals every handle returned for b before; and no step of a
\* call on bytes that were returned before changes the object layer.
C2_HandleIdempotence ==
    /\ [](  (res.op = "add_shader" /\ ValidSpirv(res.arg.bytes))
              => /\ res.kind = "ok"
                 /\ \A r \in returned : r.bytes = res.arg.bytes => r.handle = res.val )
    /\ [][ \A t \in threads : ReAdding(t) => fs' = fs ]_vars

C2_Witness ==
    /\ res.op = "add_shader" /\ res.kind = "ok"
    /\ res.arg.meta = [name |-> NameT]
    /\ \E i \in DOMAIN index :
          index[i].handle = res.val /\ index[i].name # NameT

\* C3 (concurrent puts of equal bytes): an add_shader call that overlaps
\* another thread's add_shader of the same bytes returns a handle (it does
\* not fail), the handle is the one of every other call on these bytes, and
\* one object is stored for them.
C3_ConcurrentPutsSucceed ==
    (/\ res.op = "add_shader"
     /\ ValidSpirv(res.arg.bytes)
     /\ \E t \in threads : pc[t] # "idle" /\ loc[t].bytes = res.arg.bytes)
    => /\ res.kind = "ok"
       /\ \A r \in returned : r.bytes = res.arg.bytes => r.handle = res.val
       /\ GetOf(fs, res.val) = Ok("get", res.val, res.arg.bytes)

\* C4 (atomic object writes): a get on the handle of a payload, whenever it
\* runs (while another thread is writing that object too), either fails with
\* not-found or returns the complete payload, never an empty or partial one.
C4_AtomicObjectWrite ==
    (res.op = "get" /\ res.arg \in KnownHandles /\ res.kind # "KeyError")
    => (res.kind = "ok" /\ res.val = PayloadOf(res.arg))

\* C5 (upsert on re-put, last-writer-wins): whenever add_shader returns a
\* handle, the index row of that handle carries the metadata of this call.
C5_LastWriterWins ==
    (res.op = "add_shader" /\ res.kind = "ok")
    => \E i \in DOMAIN index :
          index[i] = MergedRow(res.val, res.arg.bytes, res.arg.meta)

C7_RowImpliesObject ==
    \A i \in DOMAIN index : PathExists(fs, index[i].handle)

C7_Witness ==
    /\ Len(index) = 2
    /\ \E t \in threads :
          /\ t # ConnOwner
          /\ pc[t] = "write"
          /\ loc[t].handle \in IndexHandles

\* thread t is at the existence check of add_shader and the object path of
\* its payload holds a file with other bytes
HoldsDifferentBytes(t) ==
    /\ pc[t] = "check"
    /\ fs[ObjPath(FromSpirv(loc[t].bytes))].exists
    /\ fs[ObjPath(FromSpirv(loc[t].bytes))].bytes # loc[t].bytes

(***************************************************************************)
(* C19: when add_shader finds at the object path of its payload a file     *)
(* with different bytes, the call ends with the collision error, and the   *)
(* step changes neither the object layer nor the index (nor the set of     *)
(* handles returned).                                                      *)
(***************************************************************************)
C19_CollisionChangesNothing ==
    [][\A t \in AllThreads :
          (HoldsDifferentBytes(t) /\ pc'[t] # "check") =>
             /\ res' = Err("add_shader", [bytes |-> loc[t].bytes, meta |-> NoMeta], "Collision")
             /\ fs' = fs
             /\ index' = index
             /\ returned' = returned]_vars

\* a call has ended with the collision error and the file it met is still there
C19_Witness ==
    /\ res.op = "add_shader" /\ res.kind = "Collision"
    /\ fs[ObjPath(FromSpirv(res.arg.bytes))].exists
    /\ fs[ObjPath(FromSpirv(res.arg.bytes))].bytes # res.arg.bytes

\* the step completes a call: res changes (op and kind are compared first,
\* the arguments and values of different calls are of different kinds)
ResChanges ==
    IF res'.op # res.op \/ res'.kind # res.kind THEN TRUE
    ELSE res'.arg # res.arg \/ res'.val # res.val

\* the little-endian 32-bit word at the head of a payload of four bytes or more
FirstWord(b) == b[1] + b[2] * 256 + b[3] * 256 * 256 + b[4] * 256 * 256 * 256

\* a payload the store must reject: shorter than 20 bytes, of a length that is
\* not a multiple of 4, or with a first word other than 0x07230203
MustReject(b) ==
    \/ Len(b) < 20
    \/ Len(b) % 4 # 0
    \/ FirstWord(b) # 7 * 16777216 + 35 * 65536 + 2 * 256 + 3

(***************************************************************************)
(* C20: a payload that is shorter than 20 bytes, whose length is not a     *)
(* multiple of 4 or whose first little-endian word is not 0x07230203 never *)
(* gets past the validation of add_shader: the call ends with ValueError,  *)
(* no handle is returned for it, and the step that rejects it changes      *)
(* neither the object layer nor the index.                                 *)
(***************************************************************************)
C20_InvalidRejected ==
    /\ [](/\ \A t \in AllThreads : pc[t] # "idle" => ~MustReject(loc[t].bytes)
          /\ \A r \in returned : ~MustReject(r.bytes)
          /\ (res.op = "add_shader" /\ MustReject(res.arg.bytes)) => res.kind = "ValueError")
    /\ [][(ResChanges /\ res'.op = "add_shader" /\ MustReject(res'.arg.bytes))
            => (fs' = fs /\ index' = index /\ returned' = returned)]_vars

\* a payload with a wrong magic word has been rejected after a shader was
\* stored: the object and the row of that shader are all the store holds
C20_Witness ==
    /\ res = Err("add_shader", [bytes |-> BadMagic, meta |-> NoMeta], "ValueError")
    /\ Len(index) = 1
    /\ \E p \in Paths : fs[p].exists

\* the step completes a get / an exists call on a handle string the store accepts
GetReturns == ResChanges /\ res'.op = "get" /\ ValidHandle(res'.arg)

ExistsReturns == ResChanges /\ res'.op = "exists" /\ ValidHandle(res'.arg)

(***************************************************************************)
(* C21: a get(h) on a handle the store accepts raises KeyError exactly     *)
(* when exists(h) is False in that state and returns bytes exactly when    *)
(* exists(h) is True, and neither get nor exists changes the object layer  *)
(* or the index.                                                           *)
(***************************************************************************)
C21_GetAgreesWithExists ==
    [][/\ GetReturns =>
             /\ (res'.kind = "KeyError") <=> (ExistsOf(fs, res'.arg).val = FALSE)
             /\ (res'.kind = "ok") <=> (ExistsOf(fs, res'.arg).val = TRUE)
             /\ fs' = fs /\ index' = index
       /\ ExistsReturns => (fs' = fs /\ index' = index)]_vars

(***************************************************************************)
(* C22: the rows that query returns are ordered by handle, ascending, so   *)
(* that their order is the same whatever the order in which the shaders    *)
(* were inserted.                                                          *)
(***************************************************************************)
C22_QueryOrderByHandle ==
    (res.op = "query" /\ res.kind = "ok")
    => \A i \in DOMAIN res.val : \A j \in DOMAIN res.val :
          i < j => HandleLess(res.val[i].handle, res.val[j].handle)

\* the row of g stands before the row of h in the table: in a store used by
\* one thread a handle is inserted once, when add_shader first stores it, so
\* the rowid order is the order of the first stores
FirstStoredBefore(g, h) ==
    \E i \in DOMAIN index : \E j \in DOMAIN index :
       i < j /\ index[i].handle = g /\ index[j].handle = h

ListAllReturns == ResChanges /\ res'.op = "list_all" /\ res'.kind = "ok"

(***************************************************************************)
(* C23: list_all(limit) returns at most limit handles, and a handle that   *)
(* add_shader stored first before another one precedes it in the result.   *)
(***************************************************************************)
C23_ListInInsertionOrder ==
    [][ListAllReturns =>
          /\ Len(res'.val) <= res'.arg
          /\ \A i \in DOMAIN res'.val : \A j \in DOMAIN res'.val :
                i < j => FirstStoredBefore(res'.val[i], res'.val[j])]_vars

LowerHexChars ==
    {"0", "1", "2", "3", "4", "5", "6", "7", "8", "9", "a", "b", "c", "d", "e", "f"}

\* '&h_shader_' followed by exactly 64 lowercase hex characters, the prefix
\* and the suffix of the handle making up its hash
WellFormedHandle(h) ==
    /\ StartsWith(h, PREFIX)
    /\ Len(HandleHash(h)) = 64
    /\ \A i \in 1 .. Len(HandleHash(h)) : SubSeq(HandleHash(h), i, i) \in LowerHexChars
    /\ Len(HandlePrefix(h)) = 2
    /\ Len(HandleSuffix(h)) = 62
    /\ HandlePrefix(h) \o HandleSuffix(h) = HandleHash(h)

(***************************************************************************)
(* C24: every ShaderHandle that has been constructed, by from_spirv in     *)
(* add_shader or from the handle string passed to get or exists, is        *)
(* '&h_shader_' followed by exactly 64 lowercase hex characters, and its   *)
(* 2-character prefix followed by its 62-character suffix is its hash.     *)
(***************************************************************************)
C24_HandleFormat ==
    /\ (res.op \in {"get", "exists"} /\ res.kind # "ValueError") => WellFormedHandle(res.arg)
    /\ (res.op = "add_shader" /\ res.kind = "ok") => WellFormedHandle(res.val)

\* the shaders table holds a row for handle h
HasRow(h) == \E i \in DOMAIN index : index[i].handle = h

(***************************************************************************)
(* C30: whenever add_shader has returned a handle h, on any thread and in  *)
(* any interleaving, the index holds a row for h.                          *)
(***************************************************************************)
C30_ReturnedImpliesRow == \A r \in returned : HasRow(r.handle)

(***************************************************************************)
(*                        Claims about the codecs                          *)
(***************************************************************************)
\* C8 (P2, LC-T reversibility): whenever decode_lct has been applied to
\* encode_lct(V) for a value V of the value model, it returned a value, and
\* that value equals V.
C8_LctReversible ==
    Called(lctOut) => (lctOut.ok /\ PyEq(lctOut.val, input))

\* C9 (P3, LC-R reversibility): whenever decode_lcr has been applied to
\* encode_lcr(V) for a value V of the value model, it returned a value, and
\* that value equals V.
C9_LcrReversible ==
    Called(lcrOut) => (lcrOut.ok /\ PyEq(lcrOut.val, input))

\* C10 (LC-T re-encoding is stable): verify_lct_bijection(V) returns True for
\* every value V that encode_lct encodes.
C10_ReencodingStable ==
    bijection # "not called" => bijection = "True"

\* C11 (LC-T and LC-R project the same value): whenever both decode_lct and
\* decode_lcr have been applied to the encodings of one value V, both returned
\* a value and the two values are equal.
C11_SameProjection ==
    (Called(lctOut) /\ Called(lcrOut)) =>
        (lctOut.ok /\ lcrOut.ok /\ PyEq(lctOut.val, lcrOut.val))

\* C12 (LC-R contract fields keep their indices): for every contract C,
\* encode_lcr(C) holds, for each key field_i of C, the field marker followed
\* by the digits of i and a space, and decode_lcr applied to encode_lcr(C)
\* returns a value equal to C.
IsContractInput == input.t = "dict" /\ DictHas(input.v, ContractIdKey)

FieldMarker(k) == LC_R_GLYPHS["FIELD"] \o Chars(IntToStr(FieldIdx(k))) \o <<" ">>

C12_ContractFieldIndices ==
    IsContractInput =>
        /\ lcrText.set =>
               \A k \in DictKeys(input.v) :
                   IsFieldKey(k) => Contains(lcrText.text, FieldMarker(k))
        /\ Called(lcrOut) => (lcrOut.ok /\ PyEq(lcrOut.val, input))

(***************************************************************************)
(*                      Claims about the LC-B client                       *)
(***************************************************************************)
\* C13 (batch trailer): the last 32 bytes of every batch that build() has
\* returned are the BLAKE2b-256 digest of all the bytes before them.
C13_TrailerIsBlake2b ==
    batch.set =>
        Drop(batch.bytes, Len(batch.bytes) - 32)
            = Blake2b256(Take(batch.bytes, Len(batch.bytes) - 32))

\* the ints of the 64-bit range: at most nine base-128 digits of their own
InI64(value) == Len(Norm(value).d) <= 9

\* C14 (signed LEB128 round trip): for every v in [-2^63, 2^63 - 1],
\* decode_leb128_i64(encode_leb128_i64(v), 0) returns the pair of v and the
\* length of the encoding.
C14_I64RoundTrip ==
    (InI64(lebValue) /\ Called(lebOut)) =>
        /\ lebOut.ok
        /\ BigEq(lebOut.val, lebValue)
        /\ lebOut.off = Len(lebBytes.bytes)

\* the encoding at the head of data runs past five bytes: its first five
\* bytes all carry the continuation bit
LongerThanFive(data) == Len(data) > 5 /\ \A i \in 1..5 : HasBit7(data[i])

\* the encoding at the head of data has five bytes and its value is above
\* 2^32 - 1: the fifth byte holds more than the four bits 28..31
AboveU32(data) ==
    /\ Len(data) >= 5
    /\ \A i \in 1..4 : HasBit7(data[i])
    /\ ~HasBit7(data[5])
    /\ data[5] > 15

\* C15 (overlong LEB128 is rejected): decode_leb128_u32 applied to an
\* encoding of more than five bytes, or to one whose value exceeds 2^32 - 1,
\* raises an error and returns no value.
C15_OverlongRejected ==
    (Called(u32Out) /\ (LongerThanFive(u32Data) \/ AboveU32(u32Data))) =>
        ~u32Out.ok

\* the socket calls of one round trip, in order
RoundTrip == <<"connect", "sendall", "sendall", "_recv_exact", "_recv_exact", "close">>

FailedBefore(i) == \E j \in 1 .. i - 1 : ~wire[j].ok

\* what call i of a round trip carries
CallCarries(i) ==
    /\ i = 2 => wire[i].bytes = PackU32(Len(execBatch)) /\ Len(wire[i].bytes) = 4
    /\ i = 3 => wire[i].bytes = execBatch /\ Len(wire[i].bytes) = UnpackU32(wire[2].bytes)
    /\ i = 4 => wire[i].n = 4 /\ (wire[i].ok => Len(wire[i].bytes) = 4)
    /\ i = 5 => /\ wire[i].n = UnpackU32(wire[4].bytes)
                /\ wire[i].ok => /\ Len(wire[i].bytes) = wire[i].n
                                 /\ peerPos = 4 + wire[i].n

(***************************************************************************)
(* C16: each execute(batch) makes its socket calls in the order connect,   *)
(* sendall of the 4-byte little-endian length of the batch, sendall of the *)
(* batch, a read of exactly 4 bytes, a read of exactly the announced       *)
(* number of response bytes; a call that fails is followed by close only,  *)
(* and when execute has ended (with results, with the error of an error    *)
(* response or with a transport failure) the socket has been closed, as    *)
(* the last call.                                                          *)
(***************************************************************************)
C16_OneRoundTrip ==
    /\ \A i \in DOMAIN wire :
          IF FailedBefore(i) THEN wire[i].op = "close" /\ ~wire[i - 1].ok
          ELSE i <= Len(RoundTrip) /\ wire[i].op = RoundTrip[i] /\ CallCarries(i)
    /\ execPc = "done" => /\ sock = "closed"
                          /\ Len(wire) > 0
                          /\ wire[Len(wire)].op = "close"

\* a round trip that returned results for a batch of the builder
C16_Witness ==
    /\ execPc = "done"
    /\ execRes.ok
    /\ Len(execRes.results) = 2
    /\ execBatch = build(<<>>)
    /\ Len(wire) = 6

\* the bytes of the peer's stream that the _recv_exact calls before call i returned
RECURSIVE TakenBefore(_)
TakenBefore(i) ==
    IF i <= 1 THEN 0
    ELSE TakenBefore(i - 1)
           + (IF wire[i - 1].op = "_recv_exact" THEN Len(wire[i - 1].bytes) ELSE 0)

(***************************************************************************)
(* C17: however the peer's bytes are split into chunks, a call of          *)
(* _recv_exact(sock, n) made when the peer still delivers at least n bytes *)
(* returns exactly the next n bytes of the peer's stream, and a call made  *)
(* when the peer closes before n bytes have arrived raises                 *)
(* ConnectionError.                                                        *)
(***************************************************************************)
C17_RecvExact ==
    \A i \in DOMAIN wire :
       wire[i].op = "_recv_exact" =>
          IF Len(peerData) - TakenBefore(i) >= wire[i].n
          THEN /\ wire[i].ok
               /\ wire[i].bytes = SubSeq(peerData, TakenBefore(i) + 1,
                                         TakenBefore(i) + wire[i].n)
          ELSE ~wire[i].ok /\ execRes = Exception("ConnectionError", <<>>)

\* the peer delivered more than the announced 2 bytes and _recv_exact returned 2
C17_Witness ==
    /\ Len(wire) >= 5
    /\ wire[5].op = "_recv_exact" /\ wire[5].ok
    /\ wire[5].n = 2 /\ Len(wire[5].bytes) = 2
    /\ Len(peerData) > 4 + 2

\* _parse_response has run on the response that execute read
Parsed == response.set /\ execPc \in {"close", "done"}

\* the results that stand on the wire from offset on, k of them, in order
RECURSIVE WireResults(_, _, _)
WireResults(data, offset, k) ==
    IF k = 0 \/ ~parse_result(data, offset).ok THEN <<>>
    ELSE <<parse_result(data, offset).val>>
           \o WireResults(data, parse_result(data, offset).off, k - 1)

\* the n_results field of a payload and the offset behind it
Announced(data) == decode_leb128_u32(data, 1)

(***************************************************************************)
(* C18: _parse_response returns results only for a payload whose status    *)
(* byte is 0, and then exactly the n_results results of the payload in     *)
(* wire order; for status byte 1 it returns no results, and raises         *)
(* RuntimeError with the decoded message when the message is well formed.  *)
(***************************************************************************)
C18_StatusHandling ==
    Parsed =>
       /\ execRes.ok =>
             /\ Len(response.bytes) > 0 /\ response.bytes[1] = 0
             /\ Len(execRes.results) = Cap(Announced(response.bytes).val)
             /\ execRes.results = WireResults(response.bytes, Announced(response.bytes).off,
                                              Cap(Announced(response.bytes).val))
       /\ (Len(response.bytes) > 0 /\ response.bytes[1] = 1) =>
             /\ ~execRes.ok
             /\ execRes.results = <<>>
             /\ (Announced(response.bytes).ok
                   /\ ValidUtf8(BytesSlice(response.bytes, Announced(response.bytes).off,
                                           Len(response.bytes))))
                => /\ execRes.err = "RuntimeError"
                   /\ execRes.msg = BytesSlice(response.bytes, Announced(response.bytes).off,
                                               Announced(response.bytes).off
                                                 + Cap(Announced(response.bytes).val))

\* build returns the batch of the instructions the builder holds
Built ==
    /\ Tabulated(BuildData(instructions))
    /\ instructions' = instructions
    /\ batch'.set
    /\ batch'.bytes = build(instructions)

\* every chain parameter of instruction i (counted from 0) names an earlier one
ChainRefsBackward(instrs) ==
    \A i \in DOMAIN instrs : \A j \in DOMAIN instrs[i].params :
        instrs[i].params[j].ptype = "chain"
        => (0 <= instrs[i].params[j].value.int /\ instrs[i].params[j].value.int < i - 1)

(***************************************************************************)
(* C29: in every batch build returns, each ChainFrom(k) parameter sits in  *)
(* an instruction of index i with 0 <= k < i.                              *)
(***************************************************************************)
C29_ChainRefsBackward == [][Built => ChainRefsBackward(instructions)]_vars

(***************************************************************************)
(*                    Claims about the in-process CAS                      *)
(***************************************************************************)
\* the same value: same type and same content, lists in the same order, dicts
\* with the same pairs in the same insertion order
Same(a, b) == a.t = b.t /\ a.v = b.v

\* structural, deep equality of two values: same type, lists by position,
\* objects by key whatever the insertion order, floats by their value
RECURSIVE StructEq(_, _)
StructEq(a, b) ==
    IF a.t # b.t THEN FALSE
    ELSE IF a.t = "list"
         THEN /\ Len(a.v) = Len(b.v)
              /\ \A i \in DOMAIN a.v : StructEq(a.v[i], b.v[i])
    ELSE IF a.t = "dict"
         THEN /\ DictKeys(a.v) = DictKeys(b.v)
              /\ \A k \in DictKeys(a.v) : StructEq(DictVal(a.v, k), DictVal(b.v, k))
    ELSE a.v = b.v

\* the step is a collapse call
Collapsed ==
    /\ casCall'.op = "collapse"
    /\ store' = put(store, casCall'.value)

\* the store held value under its handle before the step
HeldBefore(value) ==
    \E i \in DOMAIN store : store[i][1] = HandleOfValue(value) /\ Same(store[i][2], value)

(***************************************************************************)
(* C25: in every store state, the handle a collapse of v returns resolves  *)
(* to v right after the call, and a collapse of a value the store already  *)
(* holds returns the handle it is held under and adds no store entry.      *)
(***************************************************************************)
C25_ResolveInvertsCollapse ==
    [][Collapsed =>
          /\ get(store', casCall'.handle).ok
          /\ Same(get(store', casCall'.handle).value, casCall'.value)
          /\ StructEq(get(store', casCall'.handle).value, casCall'.value)
          /\ HeldBefore(casCall'.value) => store' = store
          /\ \A i \in DOMAIN store :
                Same(store[i][2], casCall'.value) => store[i][1] = casCall'.handle]_vars

\* the value stored first has been collapsed again into a full store
C25_Witness ==
    /\ casCall.op = "collapse"
    /\ Len(store) = MaxStore
    /\ store[1][1] = casCall.handle
    /\ Same(get(store, casCall.handle).value, casCall.value)

(***************************************************************************)
(* C26: two values of the store are structurally equal exactly when they   *)
(* are held under the same handle: equal values collapse to one handle,    *)
(* distinct values to different handles.                                   *)
(***************************************************************************)
C26_EqualValuesOneHandle ==
    \A i, j \in DOMAIN store :
        StructEq(store[i][2], store[j][2]) <=> store[i][1] = store[j][1]

(***************************************************************************)
(*                    Claims about decode_lct on any text                  *)
(***************************************************************************)
\* the text decode works on: lct_str.strip()
Stripped == Strip(lctText.text)

(***************************************************************************)
(* C27: decode_lct on any text either returns a value with the whole       *)
(* stripped input consumed, or raises LCTError - no other exception.       *)
(***************************************************************************)
C27_DecodeTotalTyped ==
    Called(lctOut) =>
        IF lctOut.ok THEN SkipWhitespace(Stripped, lctOut.pos) > Len(Stripped)
        ELSE lctOut.err = LCTError

RECURSIVE CountChar(_, _)
CountChar(s, c) ==
    IF Len(s) = 0 THEN 0
    ELSE (IF CharAt(s, 1) = c THEN 1 ELSE 0) + CountChar(Tail(s), c)

\* the text opens a contract or an object and does not end with '}'
MissingClose(s) == CharAt(s, 1) = "{" /\ CharAt(s, Len(s)) # "}"

\* one brace pair without array or string inside
Flat(s) ==
    /\ CharAt(s, 1) = "{"
    /\ CountChar(s, "{") = 1
    /\ CountChar(s, "[") = 0
    /\ CountChar(s, "\"") = 0

\* a flat contract has one ',' per '=', a flat object one ',' less than ':'
MissingComma(s) ==
    /\ Flat(s)
    /\ IF Slice(s, 2, 3) = "C:" THEN CountChar(s, "=") > CountChar(s, ",")
       ELSE CountChar(s, ":") > CountChar(s, ",") + 1

\* the text starts with a letter or '_' and is none of the three keywords
BareIdentifier(s) ==
    /\ Len(s) > 0
    /\ IsAlpha(CharAt(s, 1)) \/ CharAt(s, 1) = "_"
    /\ s \notin {"NULL", "TRUE", "FALSE"}

(***************************************************************************)
(* C28: decode_lct rejects a contract or object without its closing '}',   *)
(* pairs or fields not separated by ',', and a bare identifier.            *)
(***************************************************************************)
C28_GrammarOnly ==
    (/\ Called(lctOut)
     /\ MissingClose(Stripped) \/ MissingComma(Stripped) \/ BareIdentifier(Stripped))
    => ~lctOut.ok

=============================================================================
